---------------------------- MODULE Spec2Model ----------------------------
(***************************************************************************)
(* Model of the computational core of the futsal dashboard:                *)
(*   - common/metrics.py : parse_time_to_seconds, ewma, build_minute_matrix *)
(*   - common/colors.py  : pick_match_colors and its colour arithmetic      *)
(*   - the event tables  : build_attack_df, build_goals_only,               *)
(*     process_timeline, compute_event_stats, plot_top_players (its table), *)
(*     plot_cumulative (its lines)                                          *)
(*   - the score of a match as main and the infographic count it           *)
(*   - controllers/auth_controller.py, common/ui.py and the page scripts:  *)
(*     login, logout and the session state across script runs              *)
(*                                                                         *)
(* Conventions.                                                            *)
(*   - A Python string is a sequence of one-character strings; the curly   *)
(*     quotes are the tokens "rsquo", "prime", "ldquo", "rdquo".           *)
(*   - A call that may raise returns [ok |-> BOOLEAN, val |-> Int]; ok is  *)
(*     FALSE when the Python call raises.                                  *)
(*   - Python floats are modelled as exact numbers (integers, or           *)
(*     fixed-point integers with the scale named in the definition); the   *)
(*     float range and rounding of IEEE doubles are not modelled.          *)
(***************************************************************************)
EXTENDS Integers, Sequences, FiniteSets, TLC

VARIABLES
    raw,        \* parse_time_to_seconds: the argument `val`
    parsed,     \* parse_time_to_seconds: the outcome of the call, or NotCalled
    series,     \* ewma: the arguments [x, dt, tau]
    smoothed,   \* ewma: the outcome of the call, or NotCalled
    df_attack,  \* build_minute_matrix: the attack table (a sequence of rows)
    match_row,  \* build_minute_matrix: [HomeName, AwayName]
    minute_df,  \* build_minute_matrix: the outcome of the call, or NotCalled
    hashHue,    \* colors: hash(name) % 360 of the running interpreter, per name
    pid,        \* colors: number of the running interpreter process
    df_flags,   \* colors: what get_team_flags() yields (a table, or Unavailable)
    df_db,      \* colors: what load_colors_db() yields (the rows of team_colors)
    prevCall,   \* colors: the call of pick_match_colors before the last one
    lastCall,   \* colors: the last call of pick_match_colors, with its outcome
    df_events,  \* page: the events of the match (get_match_events)
    df_squads,  \* page: the squads table (get_players_for_teams), or None
    attack_out, \* page: the outcome of build_attack_df (its rows are df_attack)
    timeline,   \* page: the outcome of process_timeline, or NotCalled
    stats,      \* page: the outcome of compute_event_stats, or NotCalled
    goals_df,   \* page: the outcome of build_goals_only, or NotCalled
    top_players, \* page: the table `agg` of plot_top_players, or NotCalled
    cumulative, \* page: the lines of plot_cumulative, or NotCalled
    main_score, \* page: the score that main shows, or NotCalled
    info_score, \* page: the outcome of _compute_score, or NotCalled
    session_state, \* session: st.session_state, key by key
    cookie,     \* session: the browser's value of the cookie COOKIE_NAME
    page,       \* session: the page whose script ran last
    shown,      \* session: the widgets that the last run rendered
    rerun,      \* session: the last run ended by asking for a rerun
    last_click, \* session: the Logout control that the last run handled
    prev_click, \* session: the Logout control that the run before it handled
    logged_out  \* session: Logout was clicked and no valid login came since

vars == <<raw, parsed, series, smoothed, df_attack, match_row, minute_df,
          hashHue, pid, df_flags, df_db, prevCall, lastCall,
          df_events, df_squads, attack_out, timeline, stats, goals_df, top_players,
          cumulative, main_score, info_score,
          session_state, cookie, page, shown, rerun, last_click, prev_click,
          logged_out>>

parseVars  == <<raw, parsed>>
ewmaVars   == <<series, smoothed>>
matrixVars == <<df_attack, match_row, minute_df>>
colorVars  == <<hashHue, pid, df_flags, df_db, prevCall, lastCall>>
scoreVars  == <<main_score, info_score>>
pageVars   == <<df_events, df_squads, attack_out, timeline, stats, goals_df, top_players,
               cumulative, scoreVars>>
authVars   == <<session_state, cookie, page, shown, rerun, last_click, prev_click,
               logged_out>>

NotCalled == [called |-> FALSE]

\* ------------------------------------------------------------------ helpers

Min(S) == CHOOSE x \in S : \A y \in S : x <= y
Max(S) == CHOOSE x \in S : \A y \in S : x >= y

RECURSIVE SeqsUpTo(_, _)
\* All sequences over A of length 0..n.
SeqsUpTo(A, n) ==
    IF n = 0 THEN {<<>>}
    ELSE LET shorter == SeqsUpTo(A, n - 1)
         IN  shorter \cup {Append(s, a) : s \in {t \in shorter : Len(t) = n - 1}, a \in A}

Ok(v)    == [ok |-> TRUE,  val |-> v]
Raise    == [ok |-> FALSE, val |-> 0]

\* ------------------------------------------------- Python string primitives

Digits == {"0", "1", "2", "3", "4", "5", "6", "7", "8", "9"}

IsDigit(c) == c \in Digits

DigitVal(c) ==
    CASE c = "0" -> 0 [] c = "1" -> 1 [] c = "2" -> 2 [] c = "3" -> 3
      [] c = "4" -> 4 [] c = "5" -> 5 [] c = "6" -> 6 [] c = "7" -> 7
      [] c = "8" -> 8 [] c = "9" -> 9

DigitChar(d) == <<"0", "1", "2", "3", "4", "5", "6", "7", "8", "9">>[d + 1]

RECURSIVE DecimalValue(_)
\* The value of a string of decimal digits.
DecimalValue(ds) ==
    IF ds = <<>> THEN 0
    ELSE 10 * DecimalValue(SubSeq(ds, 1, Len(ds) - 1)) + DigitVal(ds[Len(ds)])

\* int(s) for a string s: raises ValueError unless s is a non-empty digit string.
PyInt(ds) ==
    IF ds # <<>> /\ \A i \in 1..Len(ds) : IsDigit(ds[i])
    THEN Ok(DecimalValue(ds))
    ELSE Raise

RECURSIVE FormatNat(_)
\* str(n) for a natural number n.
FormatNat(n) ==
    IF n < 10 THEN <<DigitChar(n)>>
    ELSE Append(FormatNat(n \div 10), DigitChar(n % 10))

\* str(val) for the numeric arguments of the model.
PyStr(val) ==
    CASE val.kind = "str"   -> val.chars
      [] val.kind = "int"   -> IF val.n < 0 THEN <<"-">> \o FormatNat(-val.n)
                               ELSE FormatNat(val.n)
      [] val.kind = "float" -> FormatNat(val.n) \o <<".">> \o FormatNat(val.frac)
      [] val.kind = "inf"   -> <<"i", "n", "f">>
      [] OTHER              -> <<"N", "o", "n", "e">>

\* pd.isna(val) for a scalar.
IsNa(val) == val.kind \in {"None", "NaN"}

RECURSIVE LStrip(_)
LStrip(s) == IF s # <<>> /\ Head(s) = " " THEN LStrip(Tail(s)) ELSE s

RECURSIVE RStrip(_)
RStrip(s) ==
    IF s # <<>> /\ s[Len(s)] = " " THEN RStrip(SubSeq(s, 1, Len(s) - 1)) ELSE s

\* str.strip()
Strip(s) == RStrip(LStrip(s))

\* .replace of the four curly quotes by their ASCII equivalents.
NormalizeQuotes(s) ==
    [i \in 1..Len(s) |->
        CASE s[i] \in {"rsquo", "prime"} -> "'"
          [] s[i] \in {"ldquo", "rdquo"} -> "\""
          [] OTHER -> s[i]]

LowerChar(c) ==
    CASE c = "S" -> "s" [] c = "E" -> "e" [] c = "C" -> "c" [] c = "P" -> "p"
      [] c = "T" -> "t" [] c = "M" -> "m" [] c = "H" -> "h" [] c = "N" -> "n"
      [] c = "G" -> "g" [] c = "A" -> "a" [] c = "F" -> "f" [] c = "O" -> "o"
      [] c = "L" -> "l"
      [] OTHER -> c

\* str.lower()
Lower(s) == [i \in 1..Len(s) |-> LowerChar(s[i])]

\* `sub in s`
Contains(s, sub) ==
    \E i \in 1..(Len(s) - Len(sub) + 1) : SubSeq(s, i, i + Len(sub) - 1) = sub

StartsWith(s, pre) == Len(s) >= Len(pre) /\ SubSeq(s, 1, Len(pre)) = pre
EndsWith(s, suf)   == Len(s) >= Len(suf) /\ SubSeq(s, Len(s) - Len(suf) + 1, Len(s)) = suf

\* ------------------------------------------------------- regular expressions

RECURSIVE DigitRunEnd(_, _)
\* The first position >= i of s that holds no digit (Len(s) + 1 if none).
DigitRunEnd(s, i) ==
    IF i <= Len(s) /\ IsDigit(s[i]) THEN DigitRunEnd(s, i + 1) ELSE i

NoMatch == [matched |-> FALSE, group1 |-> <<>>]

\* Whether  pre(\d+)post  matches s at position i (\d+ is greedy, and giving
\* digits back can never help, since post is no digit).
MatchesAt(s, i, pre, post) ==
    /\ i + Len(pre) - 1 <= Len(s)
    /\ SubSeq(s, i, i + Len(pre) - 1) = pre
    /\ LET j == i + Len(pre)
           e == DigitRunEnd(s, j)
       IN  e > j /\ e <= Len(s) /\ s[e] = post

\* re.search(r'<pre>(\d+)<post>', s): the leftmost match and its group 1.
re_search(s, pre, post) ==
    LET starts == {i \in 1..Len(s) : MatchesAt(s, i, pre, post)}
    IN  IF starts = {} THEN NoMatch
        ELSE LET j == Min(starts) + Len(pre)
             IN  [matched |-> TRUE, group1 |-> SubSeq(s, j, DigitRunEnd(s, j) - 1)]

\* re.split(r"[:']", s, maxsplit=1): split once at the first colon or apostrophe.
re_split_once(s) ==
    LET seps == {i \in 1..Len(s) : s[i] \in {":", "'"}}
    IN  IF seps = {} THEN <<s>>
        ELSE <<SubSeq(s, 1, Min(seps) - 1), SubSeq(s, Min(seps) + 1, Len(s))>>

\* re.sub(r"\D", "", s): the digits of s, in order.
re_sub_nondigits(s) == SelectSeq(s, IsDigit)

\* re.fullmatch(r"\d+", s)
re_fullmatch_digits(s) == s # <<>> /\ \A i \in 1..Len(s) : IsDigit(s[i])

RECURSIVE re_findall_digits(_)
\* re.findall(r"\d+", s): the maximal digit runs of s, left to right.
re_findall_digits(s) ==
    IF s = <<>> THEN <<>>
    ELSE IF IsDigit(s[1])
         THEN LET e == DigitRunEnd(s, 1)
              IN  <<SubSeq(s, 1, e - 1)>> \o re_findall_digits(SubSeq(s, e, Len(s)))
         ELSE re_findall_digits(Tail(s))

\* ------------------------------------------------------ parse_time_to_seconds

\* float(minutes * 60 + seconds) of two int() results; raises if either raised.
MinSec(minutes, seconds) ==
    IF ~minutes.ok THEN Raise
    ELSE IF ~seconds.ok THEN Raise
    ELSE Ok(minutes.val * 60 + seconds.val)

\* `int(group) if match else 0`, and `int(x) if x else 0`
IntOrZero_unguarded(present, ds) == PyInt(ds)
IntOrZero(present, ds) == IF present THEN PyInt(ds) ELSE Ok(0)

\* Branch 1: 'PT...S'
IsoSecondsDropped(s) ==
    LET m == re_search(s, <<"P", "T">>, "M")
    IN  IF ~m.matched
        THEN LET sec_only == re_search(s, <<"P", "T">>, "S")
             IN  IntOrZero(sec_only.matched, sec_only.group1)
        ELSE MinSec(PyInt(m.group1), Ok(0))
ParseIso(s) ==
    LET m   == re_search(s, <<"P", "T">>, "M")
        sec == re_search(s, <<"M">>, "S")
    IN  IF ~m.matched
        THEN LET sec_only == re_search(s, <<"P", "T">>, "S")
             IN  IntOrZero(sec_only.matched, sec_only.group1)
        ELSE MinSec(PyInt(m.group1), IntOrZero(sec.matched, sec.group1))

\* Branch 2: 'mm:ss' or "mm'ss"
ParseColon(s) ==
    LET parts   == re_split_once(s)
        m_str   == re_sub_nondigits(parts[1])
        sec_str == IF Len(parts) > 1 THEN re_sub_nondigits(parts[2]) ELSE <<"0">>
    IN  MinSec(IntOrZero(m_str # <<>>, m_str), IntOrZero(sec_str # <<>>, sec_str))

\* Branch 3: seconds only, '29"' or '29sec'
ParseSecondsOnly(s) ==
    LET sec_str == re_sub_nondigits(s)
    IN  IntOrZero(sec_str # <<>>, sec_str)

\* Branch 4: a pure integer is a number of minutes
PureIntegerAsSeconds(s) == MinSec(Ok(0), PyInt(s))
ParsePureInteger(s) == MinSec(PyInt(s), Ok(0))

\* Branch 5: any numbers found
ParseLastResort(s) ==
    LET nums == re_findall_digits(s)
    IN  IF Len(nums) >= 2 THEN MinSec(PyInt(nums[1]), PyInt(nums[2]))
        ELSE IF Len(nums) = 1 THEN MinSec(PyInt(nums[1]), Ok(0))
        ELSE Ok(0)

parse_time_to_seconds(val) ==
    IF IsNa(val) THEN Ok(0)
    ELSE LET s == NormalizeQuotes(Strip(PyStr(val)))
         IN  IF StartsWith(s, <<"P", "T">>) /\ EndsWith(s, <<"S">>) THEN ParseIso(s)
             ELSE IF Contains(s, <<":">>) \/ Contains(s, <<"'">>) THEN ParseColon(s)
             ELSE IF Contains(s, <<"\"">>) \/ Contains(Lower(s), <<"s", "e", "c">>)
                  THEN ParseSecondsOnly(s)
             ELSE IF re_fullmatch_digits(s) THEN ParsePureInteger(s)
             ELSE ParseLastResort(s)

\* ---- inputs of the time parser

MaxLen     == 2    \* arbitrary strings over the full alphabet: length 0..MaxLen
MaxCoreLen == 4    \* arbitrary strings over the core alphabet: length 0..MaxCoreLen
MaxMinutes == 12   \* minutes of the canonical forms: 0..MaxMinutes
MaxDigits  == 3    \* digit-only strings: length 1..MaxDigits

SecondsPerMinute == 60

Alphabet == {"0", "1", "7", "P", "T", "M", "S", "H", ":", "'", "\"", "s", "e", "c",
             "E", "g", " ", ".", "-", "rsquo", "rdquo"}
CoreAlphabet == {"1", "2", "P", "T", "M", "S", ":"}

Str(chars) == [kind |-> "str", chars |-> chars]

Pad2(n) == IF n < 10 THEN <<"0">> \o FormatNat(n) ELSE FormatNat(n)

\* "mm:ss", "PT<m>M<s>S" and "PT<s>S"
ColonForm(m, s)  == Pad2(m) \o <<":">> \o Pad2(s)
IsoForm(m, s)    == <<"P", "T">> \o FormatNat(m) \o <<"M">> \o FormatNat(s) \o <<"S">>
IsoSecondsForm(s) == <<"P", "T">> \o FormatNat(s) \o <<"S">>

\* "PT<h>H<m>M<s>S" and "PT<h>H<s>S": a duration with an hours component
IsoHourForm(h, m, s) ==
    <<"P", "T">> \o FormatNat(h) \o <<"H">> \o FormatNat(m) \o <<"M">> \o FormatNat(s) \o <<"S">>
IsoHourSecondsForm(h, s) ==
    <<"P", "T">> \o FormatNat(h) \o <<"H">> \o FormatNat(s) \o <<"S">>

IsoHourInputs ==
    {Str(IsoHourForm(1, m, s)) : m \in {0, 2}, s \in {0, 3}}
      \cup {Str(IsoHourSecondsForm(1, 3))}

\* The canonical forms of m minutes and s seconds, s < 60, each with the
\* number of seconds it denotes.
CanonicalCases ==
    {[input |-> ColonForm(m, s), seconds |-> 60 * m + s] :
        m \in 0..MaxMinutes, s \in 0..(SecondsPerMinute - 1)}
      \cup {[input |-> IsoForm(m, s), seconds |-> 60 * m + s] :
                m \in 0..MaxMinutes, s \in 0..(SecondsPerMinute - 1)}
      \cup {[input |-> IsoSecondsForm(s), seconds |-> s] : s \in 0..(SecondsPerMinute - 1)}

CanonicalInputs == {Str(c.input) : c \in CanonicalCases}

DigitStrings == {Str(d) : d \in SeqsUpTo(Digits, MaxDigits) \ {<<>>}}

NumericInputs ==
    {[kind |-> "int", n |-> n] : n \in {-3, 0, 7, 12}}
      \cup {[kind |-> "float", n |-> n, frac |-> f] : n \in {0, 7, 12}, f \in {0, 5}}
      \cup {[kind |-> "inf"]}

NullInputs == {[kind |-> "None"], [kind |-> "NaN"]}

ParseInputs ==
    NullInputs \cup NumericInputs \cup CanonicalInputs \cup DigitStrings
      \cup {Str(c) : c \in SeqsUpTo(Alphabet, MaxLen)}
      \cup {Str(c) : c \in SeqsUpTo(CoreAlphabet, MaxCoreLen)}
      \cup {Str(<<"g", "a", "r", "b", "a", "g", "e">>)}
      \cup IsoHourInputs

\* ---- the time parser as a state machine: one call per behaviour

ParseIdle == raw = [kind |-> "None"] /\ parsed = NotCalled

CallParse ==
    /\ parsed = NotCalled
    /\ parsed' = [called |-> TRUE, result |-> parse_time_to_seconds(raw)]
    /\ UNCHANGED raw

\* ------------------------------------------------------------------- ewma

\* Floats of the smoother: fixed-point numbers with FixedOne = 1.0, and the
\* IEEE specials (inf |-> 1: +inf, -1: -inf, 0: nan).
FixedOne == 1000

Fin(v)  == [fin |-> TRUE,  v |-> v, inf |-> 0]
PosInf  == [fin |-> FALSE, v |-> 0, inf |-> 1]
NegInf  == [fin |-> FALSE, v |-> 0, inf |-> -1]
NaN     == [fin |-> FALSE, v |-> 0, inf |-> 0]

IsNaN(a) == ~a.fin /\ a.inf = 0
Sign(a)  == IF a.fin THEN (IF a.v > 0 THEN 1 ELSE IF a.v < 0 THEN -1 ELSE 0) ELSE a.inf

FMul(a, b) ==
    IF a.fin /\ b.fin THEN Fin((a.v * b.v) \div FixedOne)
    ELSE IF IsNaN(a) \/ IsNaN(b) \/ Sign(a) = 0 \/ Sign(b) = 0 THEN NaN
    ELSE IF Sign(a) * Sign(b) > 0 THEN PosInf ELSE NegInf

FAdd(a, b) ==
    IF a.fin /\ b.fin THEN Fin(a.v + b.v)
    ELSE IF IsNaN(a) \/ IsNaN(b) THEN NaN
    ELSE IF ~a.fin /\ ~b.fin /\ a.inf # b.inf THEN NaN
    ELSE IF ~a.fin THEN a ELSE b

FNeg(a) == IF a.fin THEN Fin(-a.v) ELSE [a EXCEPT !.inf = -a.inf]

\* float(n) of an integer n
FromInt(n) == Fin(n * FixedOne)

ExpTerms == 16   \* terms of the exponential series that are summed

RECURSIVE ExpSeries(_, _, _, _)
\* sum of the terms k..ExpTerms of exp(num/den), `term` being term k - 1.
ExpSeries(num, den, k, term) ==
    IF k > ExpTerms THEN 0
    ELSE LET t == (term * num) \div (den * k)
         IN  t + ExpSeries(num, den, k + 1, t)

\* np.exp(-dt / max(tau, 1e-9)) for integer dt and tau.  With tau floored to
\* 1e-9 the exponent is -dt * 1e9: the result underflows to 0.0 (dt > 0), is 1.0
\* (dt = 0) or overflows to inf (dt < 0).
ExpNegRatio(dt, tau) ==
    IF tau >= 1 THEN Fin(FixedOne + ExpSeries(-dt, tau, 1, FixedOne))
    ELSE IF dt > 0 THEN Fin(0)
    ELSE IF dt = 0 THEN Fin(FixedOne)
    ELSE PosInf

\* alpha = 1.0 - np.exp(-dt_minutes / max(tau_minutes, 1e-9))
Alpha(dt, tau) == FAdd(Fin(FixedOne), FNeg(ExpNegRatio(dt, tau)))

\* y[0] = x[0]
EwmaFirst_nohistory(x, alpha) == FMul(alpha, FromInt(x[1]))
EwmaFirst_lookahead(x, alpha) == FromInt(x[Len(x)])
EwmaFirst(x, alpha) == FromInt(x[1])

RECURSIVE EwmaLoop(_, _, _)
\* y[0..n-1] after the loop has run up to index n - 1 (1-based: y[1..n]).
EwmaLoop(x, alpha, n) ==
    IF n = 1 THEN <<EwmaFirst(x, alpha)>>
    ELSE LET y == EwmaLoop(x, alpha, n - 1)
         IN  Append(y, FAdd(FMul(alpha, FromInt(x[n])),
                            FMul(FAdd(Fin(FixedOne), FNeg(alpha)), y[n - 1])))

ewma_droplast(x, dt, tau) ==
    IF Len(x) = 0 THEN x ELSE EwmaLoop(x, Alpha(dt, tau), Max({1, Len(x) - 1}))
ewma(x, dt, tau) ==
    IF Len(x) = 0 THEN x ELSE EwmaLoop(x, Alpha(dt, tau), Len(x))

\* ---- inputs of the smoother

MaxSeriesLen == 3                 \* series of length 0..MaxSeriesLen
SeriesValues == {-1, 0, 2}        \* per-minute values
StepValues   == {-1, 0, 1, 2}     \* dt_minutes
TauValues    == {-1, 0, 1, 3}     \* tau_minutes

EwmaInputs ==
    {[x |-> x, dt |-> dt, tau |-> tau] :
        x \in SeqsUpTo(SeriesValues, MaxSeriesLen), dt \in StepValues, tau \in TauValues}

EwmaIdle == series = [x |-> <<>>, dt |-> 1, tau |-> 3] /\ smoothed = NotCalled

CallEwma ==
    /\ smoothed = NotCalled
    /\ smoothed' = [called |-> TRUE, y |-> ewma(series.x, series.dt, series.tau)]
    /\ UNCHANGED series

\* ----------------------------------------------------- build_minute_matrix

LastMinute == 40   \* the minute axis is np.arange(0, 40 + 1)

NoTeam == "NaN"    \* a TeamName that TeamId.map(names) left missing

\* A cell of a merged column: a weight sum, or NaN where the left merge found
\* no partner.
Cell(v)  == [isna |-> FALSE, v |-> v]
NaNCell  == [isna |-> TRUE,  v |-> 0]

\* .fillna(0.0)
FillNa(c) == IF c.isna THEN Cell(0) ELSE c

RECURSIVE SumW(_)
SumW(rows) == IF rows = <<>> THEN 0 ELSE Head(rows).w + SumW(Tail(rows))

RECURSIVE SortedSeq(_)
\* The elements of a finite set of integers, ascending.
SortedSeq(S) == IF S = {} THEN <<>> ELSE <<Min(S)>> \o SortedSeq(S \ {Min(S)})

TeamNamesSorted == <<"A", "B", "C">>

\* df.groupby(["minute", "TeamName"], as_index=False)["w"].sum(): one row per
\* (minute, TeamName) pair that occurs, keys sorted, rows with a missing key
\* dropped.
GroupRowsOf(rows, m) ==
    LET RowOf(i) == LET t == TeamNamesSorted[i]
                        g == SelectSeq(rows, LAMBDA r : r.minute = m /\ r.TeamName = t)
                    IN  IF g = <<>> THEN <<>>
                        ELSE <<[minute |-> m, TeamName |-> t, w |-> SumW(g)]>>
    IN  RowOf(1) \o RowOf(2) \o RowOf(3)

RECURSIVE GroupOver(_, _)
GroupOver(rows, minutes) ==
    IF minutes = <<>> THEN <<>>
    ELSE GroupRowsOf(rows, Head(minutes)) \o GroupOver(rows, Tail(minutes))

GroupBySum_ungrouped(rows) == SelectSeq(rows, LAMBDA r : r.TeamName # NoTeam)
GroupBySum(rows) ==
    GroupOver(rows, SortedSeq({rows[i].minute : i \in 1..Len(rows)}))

\* tmp[tmp["TeamName"] == team][["minute", "w"]]
TeamRows(tmp, team) == SelectSeq(tmp, LAMBDA r : r.TeamName = team)

\* pd.DataFrame({"minute": np.arange(0, 40 + 1, 1, dtype=int)})
MinuteAxis == [i \in 1..(LastMinute + 1) |-> i - 1]

RECURSIVE LeftMerge(_, _)
\* left.merge(right, on="minute", how="left") seen from the right column: for
\* every left row, in order, one output row per right row of that minute, and
\* one output row holding NaN when there is none.
LeftMerge(left, right) ==
    IF left = <<>> THEN <<>>
    ELSE LET l     == Head(left)
             hits  == SelectSeq(right, LAMBDA r : r.minute = l.minute)
             first == IF hits = <<>>
                      THEN <<[left |-> l, cell |-> NaNCell]>>
                      ELSE [i \in 1..Len(hits) |-> [left |-> l, cell |-> Cell(hits[i].w)]]
         IN  first \o LeftMerge(Tail(left), right)

build_minute_matrix(attack, row) ==
    LET tmp  == GroupBySum(attack)
        mins == [i \in 1..Len(MinuteAxis) |-> [minute |-> MinuteAxis[i]]]
        matA == LeftMerge(mins, TeamRows(tmp, row.HomeName))
        matB == LeftMerge(
                    [i \in 1..Len(matA) |->
                        [minute |-> matA[i].left.minute, team_a |-> matA[i].cell]],
                    TeamRows(tmp, row.AwayName))
    IN  [i \in 1..Len(matB) |->
            [minute |-> matB[i].left.minute,
             team_a |-> FillNa(matB[i].left.team_a).v,
             team_b |-> FillNa(matB[i].cell).v]]

\* ---- inputs of the minute matrix

MaxRows == 2   \* attack tables of 0..MaxRows rows

MinuteSamples == {0, 1, LastMinute, LastMinute + 1}

AttackRows ==
    {[minute |-> m, TeamName |-> t, w |-> w] :
        m \in MinuteSamples, t \in {"A", "B", NoTeam}, w \in {1, 2}}

MatchRows == {[HomeName |-> "A", AwayName |-> "B"], [HomeName |-> "B", AwayName |-> "B"]}

MatrixIdle ==
    /\ df_attack = <<>>
    /\ match_row = [HomeName |-> "A", AwayName |-> "B"]
    /\ minute_df = NotCalled

CallBuildMinuteMatrix ==
    /\ minute_df = NotCalled
    /\ minute_df' = [called |-> TRUE, mat |-> build_minute_matrix(df_attack, match_row)]
    /\ UNCHANGED <<df_attack, match_row>>

\* ------------------------------------------------------------------ colours

\* A colour string: "#RRGGBB" as its six hexadecimal digits (0..15), or a text
\* that is no hexadecimal colour.
HexColor(nib)   == [wf |-> TRUE,  nib |-> nib,  text |-> ""]
BadColor(text)  == [wf |-> FALSE, nib |-> <<>>, text |-> text]

\* "#{:02X}{:02X}{:02X}".format(r, g, b) for channel values 0..255
FormatHex(r, g, b) ==
    HexColor(<<r \div 16, r % 16, g \div 16, g % 16, b \div 16, b % 16>>)

\* _hex_to_rgb: the three channels as int(.., 16) reads them (the division by
\* 255.0 is left to the users of the channels); raises on a malformed string.
_hex_to_rgb(c) ==
    IF c.wf
    THEN [ok |-> TRUE,
          rgb |-> <<16 * c.nib[1] + c.nib[2], 16 * c.nib[3] + c.nib[4],
                    16 * c.nib[5] + c.nib[6]>>]
    ELSE [ok |-> FALSE, rgb |-> <<0, 0, 0>>]

\* f(v / 255) of _rgb_to_lab for v = 0..255, in units of 1e-5:
\* u / 12.92 if u <= 0.04045 else ((u + 0.055) / 1.055) ** 2.4
SrgbToLinear == <<
        0, 30, 61, 91, 121, 152, 182, 212, 243, 273, 304, 335,
        368, 402, 439, 478, 518, 561, 605, 651, 700, 750, 802, 857,
        913, 972, 1033, 1096, 1161, 1229, 1298, 1370, 1444, 1521, 1600, 1681,
        1764, 1850, 1938, 2029, 2122, 2217, 2315, 2416, 2519, 2624, 2732, 2843,
        2956, 3071, 3190, 3310, 3434, 3560, 3689, 3820, 3955, 4092, 4231, 4374,
        4519, 4667, 4817, 4971, 5127, 5286, 5448, 5613, 5781, 5951, 6125, 6301,
        6480, 6663, 6848, 7036, 7227, 7421, 7619, 7819, 8022, 8228, 8438, 8650,
        8866, 9084, 9306, 9531, 9759, 9990, 10224, 10462, 10702, 10946, 11193, 11444,
        11697, 11954, 12214, 12477, 12744, 13014, 13287, 13563, 13843, 14126, 14413, 14703,
        14996, 15293, 15593, 15896, 16203, 16513, 16827, 17144, 17465, 17789, 18116, 18447,
        18782, 19120, 19462, 19807, 20156, 20508, 20864, 21223, 21586, 21953, 22323, 22697,
        23074, 23455, 23840, 24228, 24620, 25016, 25415, 25818, 26225, 26636, 27050, 27468,
        27889, 28315, 28744, 29177, 29614, 30054, 30499, 30947, 31399, 31855, 32314, 32778,
        33245, 33716, 34191, 34670, 35153, 35640, 36131, 36625, 37124, 37626, 38133, 38643,
        39157, 39676, 40198, 40724, 41254, 41789, 42327, 42869, 43415, 43966, 44520, 45079,
        45641, 46208, 46778, 47353, 47932, 48515, 49102, 49693, 50289, 50888, 51492, 52100,
        52712, 53328, 53948, 54572, 55201, 55834, 56471, 57112, 57758, 58408, 59062, 59720,
        60383, 61050, 61721, 62396, 63076, 63760, 64448, 65141, 65837, 66539, 67244, 67954,
        68669, 69387, 70110, 70838, 71569, 72306, 73046, 73791, 74540, 75294, 76052, 76815,
        77582, 78354, 79130, 79910, 80695, 81485, 82279, 83077, 83880, 84687, 85499, 86316,
        87137, 87962, 88792, 89627, 90466, 91310, 92158, 93011, 93869, 94731, 95597, 96469,
        97345, 98225, 99110, 100000>>

\* floor(x * 10 / n), computed without leaving 32 bits
TimesTenOver(x, n) == (x \div n) * 10 + ((x % n) * 10) \div n

\* c^3 / 1000 for c in 0..10000 (units of 1e-4 cubed, rounded down twice)
CubeOver1000(c) == ((c * c) \div 1000) * c

RECURSIVE CubeRootSearch(_, _, _)
\* The largest c in lo..hi with c^3 / 1000 <= target.
CubeRootSearch(target, lo, hi) ==
    IF lo >= hi THEN lo
    ELSE LET mid == (lo + hi + 1) \div 2
         IN  IF CubeOver1000(mid) <= target
             THEN CubeRootSearch(target, mid, hi)
             ELSE CubeRootSearch(target, lo, mid - 1)

\* gfun of _rgb_to_lab: t ** (1/3) if t > 0.008856 else 7.787 * t + 16/116,
\* for t in units of 1e-5, the result in units of 1e-4.
LabF(t) ==
    IF t > 885 THEN CubeRootSearch(t * 10000, 0, 10000 + 1000)
    ELSE (7787 * t) \div 10000 + 1379

\* _rgb_to_lab: sRGB -> XYZ -> Lab (D65); L, a and b in hundredths.
_rgb_to_lab(rgb) ==
    LET r  == SrgbToLinear[rgb[1] + 1]
        g  == SrgbToLinear[rgb[2] + 1]
        b  == SrgbToLinear[rgb[3] + 1]
        X  == 4124 * r + 3576 * g + 1805 * b
        Y  == 2126 * r + 7152 * g + 722 * b
        Z  == 193 * r + 1192 * g + 9505 * b
        fx == LabF(TimesTenOver(X, 95047))
        fy == LabF(TimesTenOver(Y, 100000))
        fz == LabF(TimesTenOver(Z, 108883))
    IN  <<(116 * fy - 160000) \div 100, (500 * (fx - fy)) \div 100,
          (200 * (fy - fz)) \div 100>>

RECURSIVE SqrtSearch(_, _, _)
\* The largest d in lo..hi with d * d <= n.
SqrtSearch(n, lo, hi) ==
    IF lo >= hi THEN lo
    ELSE LET mid == (lo + hi + 1) \div 2
         IN  IF mid * mid <= n THEN SqrtSearch(n, mid, hi) ELSE SqrtSearch(n, lo, mid - 1)

\* _delta_e76: the Euclidean distance in Lab, in hundredths, rounded down;
\* raises when a colour is malformed.
_delta_e76(c1, c2) ==
    LET p1 == _hex_to_rgb(c1)
        p2 == _hex_to_rgb(c2)
    IN  IF ~p1.ok \/ ~p2.ok THEN Raise
        ELSE LET l1 == _rgb_to_lab(p1.rgb)
                 l2 == _rgb_to_lab(p2.rgb)
                 sq == (l1[1] - l2[1]) * (l1[1] - l2[1])
                       + (l1[2] - l2[2]) * (l1[2] - l2[2])
                       + (l1[3] - l2[3]) * (l1[3] - l2[3])
             IN  Ok(SqrtSearch(sq, 0, 40000))

SimilarDelta == 2000   \* delta = 20.0, in hundredths

\* _similar: distance below delta; on an exception, equality of the strings.
_similar(c1, c2) ==
    LET d == _delta_e76(c1, c2)
    IN  IF d.ok THEN d.val < SimilarDelta ELSE c1 = c2

\* Channel values v for which int((v / 255.0) * 0.75 * 255) is one less than
\* floor(0.75 * v) in double arithmetic.
DarkenFloatLoss == {44, 60, 76, 88, 120, 152, 176, 240}

\* One channel of _lighten_or_darken for factor = percent / 100.
ShadeChannel(v, percent) ==
    IF percent >= 0 THEN (v * (100 - percent) + 255 * percent) \div 100
    ELSE (v * (100 + percent)) \div 100
           - (IF percent = -25 /\ v \in DarkenFloatLoss THEN 1 ELSE 0)

\* _lighten_or_darken(hexs, factor): raises on a malformed string.
_lighten_or_darken(c, percent) ==
    LET p == _hex_to_rgb(c)
    IN  IF ~p.ok THEN [ok |-> FALSE, color |-> c]
        ELSE [ok |-> TRUE,
              color |-> FormatHex(ShadeChannel(p.rgb[1], percent),
                                  ShadeChannel(p.rgb[2], percent),
                                  ShadeChannel(p.rgb[3], percent))]

DarkenPercent == -25   \* factor -0.25 of the fallback shade and of the last resort

\* int(c * 255) for the channels of colorsys.hsv_to_rgb(hue / 360, 0.65, 0.95)
FallbackBase(hue) ==
    LET i == hue \div 60
        m == hue % 60
        v == (255 * 95) \div 100
        p == (255 * 95 * 35) \div 10000
        q == (255 * 95 * (6000 - 65 * m)) \div 600000
        t == (255 * 95 * (6000 - 65 * (60 - m))) \div 600000
    IN  CASE i = 0 -> FormatHex(v, t, p)
          [] i = 1 -> FormatHex(q, v, p)
          [] i = 2 -> FormatHex(p, v, t)
          [] i = 3 -> FormatHex(p, q, v)
          [] i = 4 -> FormatHex(t, p, v)
          [] OTHER -> FormatHex(v, p, q)

\* hash(name or "") % 360 in the running interpreter
NameHue_percall(name) ==
    IF lastCall.called THEN (hashHue[name] + 105) % 360 ELSE hashHue[name]
NameHue(name) == hashHue[name]

\* The synthesized palette of a team that is not in the table.
FallbackPalette(name) ==
    LET base == FallbackBase(NameHue(name))
    IN  [home |-> base, away |-> _lighten_or_darken(base, DarkenPercent).color]

\* str.upper().strip() of the names and abbreviations of the model
UpperKey(name) ==
    CASE name = "Argentina" -> "ARGENTINA"
      [] name = "Brazil"    -> "BRAZIL"
      [] name = "Brasil"    -> "BRASIL"
      [] OTHER              -> name

NoPalette == [found |-> FALSE, home |-> BadColor(""), away |-> BadColor("")]

\* hit.iloc[0] of the rows selected by a key, as {'home': .., 'away': ..}
FirstHit(rows, hits) ==
    IF hits = {} THEN NoPalette
    ELSE [found |-> TRUE, home |-> rows[Min(hits)].home_color,
          away |-> rows[Min(hits)].away_color]

\* db_lookup_palette: by abbreviation first, then by name.
db_lookup_palette(rows, name, abbr) ==
    LET byAbbr == FirstHit(rows, {i \in 1..Len(rows) :
                                    UpperKey(rows[i].abbr) = UpperKey(abbr)})
        byName == FirstHit(rows, {i \in 1..Len(rows) :
                                    UpperKey(rows[i].name) = UpperKey(name)})
    IN  IF rows = <<>> THEN NoPalette
        ELSE IF abbr # "" /\ byAbbr.found THEN byAbbr
        ELSE IF name # "" /\ byName.found THEN byName
        ELSE NoPalette

\* The abbreviation of a team id in get_team_flags(); None ("") when the lookup
\* raised, the id is None or no row has the id.
AbbrOf(flags, id) ==
    IF ~flags.ok \/ id = "" THEN ""
    ELSE LET hits == {i \in 1..Len(flags.rows) : flags.rows[i].TeamId = id}
         IN  IF hits = {} THEN "" ELSE flags.rows[Min(hits)].AbbreviationName

PaletteOf(rows, name, abbr) ==
    LET pal == db_lookup_palette(rows, name, abbr)
    IN  IF pal.found THEN [home |-> pal.home, away |-> pal.away]
        ELSE FallbackPalette(name)

\* pick_match_colors that darkens the away colour in every case
pick_match_colors_alwaysdarken(home_name, away_name, home_id, away_id) ==
    LET pal_home == PaletteOf(df_db.rows, home_name, AbbrOf(df_flags, home_id))
        pal_away == PaletteOf(df_db.rows, away_name, AbbrOf(df_flags, away_id))
        darker   == _lighten_or_darken(pal_away.away, DarkenPercent)
    IN  [ok |-> df_db.ok /\ darker.ok, home_color |-> pal_home.home,
         away_color |-> darker.color]

\* pick_match_colors, with the steps of the similarity rule
pick_match_colors(home_name, away_name, home_id, away_id) ==
    LET pal_home == PaletteOf(df_db.rows, home_name, AbbrOf(df_flags, home_id))
        pal_away == PaletteOf(df_db.rows, away_name, AbbrOf(df_flags, away_id))
        c_home   == pal_home.home
        c_away1  == pal_away.away
        c_away2  == IF _similar(c_home, c_away1) THEN pal_away.home ELSE c_away1
        darker   == _lighten_or_darken(c_away2, DarkenPercent)
    IN  IF ~df_db.ok
        THEN [ok |-> FALSE, home_color |-> BadColor(""), away_color |-> BadColor("")]
        ELSE IF _similar(c_home, c_away2)
        THEN [ok |-> darker.ok, home_color |-> c_home, away_color |-> darker.color]
        ELSE [ok |-> TRUE, home_color |-> c_home, away_color |-> c_away2]

\* ---- inputs of the colour resolver

NumHues   == 3     \* hash values of the model: NumHues hues ...
HueStride == 105   \* ... HueStride degrees apart, from 0
MaxProcs  == 2     \* interpreter processes in one behaviour

HueSet == {(k * HueStride) % 360 : k \in 0..(NumHues - 1)}

TeamNames == {"Argentina", "Brazil"}

TeamIdOf(name) == IF name = "Argentina" THEN "1" ELSE "2"

Black == FormatHex(0, 0, 0)
White == FormatHex(255, 255, 255)
Red   == BadColor("red")   \* a colour name where "#RRGGBB" is expected
DbShades == {<<Black, Black>>, <<White, Black>>, <<Red, Red>>}   \* (home_color, away_color)

\* get_team_flags(): the request failed, or the teams of the season
FlagChoices ==
    {[ok |-> FALSE, rows |-> <<>>],
     [ok |-> TRUE,
      rows |-> <<[TeamId |-> "1", AbbreviationName |-> "ARG"],
                 [TeamId |-> "2", AbbreviationName |-> "BRA"]>>]}

\* The table knows Argentina by name and abbreviation, and Brazil under another
\* spelling, so by its abbreviation alone.
DbRowsOf(name, abbr) ==
    {<<>>} \cup {<<[name |-> name, abbr |-> abbr, home_color |-> c[1], away_color |-> c[2]]>> :
                    c \in DbShades}

\* load_colors_db(): the rows of team_colors (none when the file is missing),
\* or an exception of sqlite3 / read_sql_query when the file cannot be read.
DbUnreadable == [ok |-> FALSE, rows |-> <<>>]

DbChoices ==
    {[ok |-> TRUE, rows |-> r1 \o r2] :
        r1 \in DbRowsOf("Argentina", "ARG"), r2 \in DbRowsOf("Brasil", "BRA")}
      \cup {DbUnreadable}

NoCall == [called |-> FALSE, pid |-> 0, args |-> <<>>,
           result |-> [ok |-> FALSE, home_color |-> BadColor(""),
                       away_color |-> BadColor("")]]

ColorIdle ==
    /\ hashHue = [n \in TeamNames |-> 0]
    /\ pid = 1
    /\ df_flags = [ok |-> FALSE, rows |-> <<>>]
    /\ df_db = [ok |-> TRUE, rows |-> <<>>]
    /\ prevCall = NoCall
    /\ lastCall = NoCall

\* ---- the colour resolver as a state machine

\* The interpreter starts anew: string hashing is keyed afresh.
StartProcess ==
    /\ pid < MaxProcs
    /\ pid' = pid + 1
    /\ hashHue' \in [TeamNames -> HueSet]
    /\ UNCHANGED <<df_flags, df_db, prevCall, lastCall>>

\* A call of pick_match_colors for a match of two teams; prevCall keeps the call before it when that
\* call had the same arguments.
CallPickMatchColors ==
    \E home_name \in TeamNames : \E away_name \in TeamNames \ {home_name} :
        LET args == <<home_name, away_name, TeamIdOf(home_name), TeamIdOf(away_name)>>
        IN  /\ lastCall' = [called |-> TRUE, pid |-> pid, args |-> args,
                            result |-> pick_match_colors(args[1], args[2], args[3], args[4])]
            /\ prevCall' = IF lastCall.called /\ lastCall.args = args
                           THEN lastCall ELSE NoCall
            /\ UNCHANGED <<hashHue, pid, df_flags, df_db>>

\* ------------------------------------------------- the event tables of a page

GOAL_WEIGHT    == 2   \* GOAL_WEIGHT = 2.0
ATTEMPT_WEIGHT == 1   \* ATTEMPT_WEIGHT = 1.0

\* Event descriptions, as Python strings
GoalText    == <<"G", "o", "a", "l", "!">>
AttemptText == <<"A", "t", "t", "e", "m", "p", "t", " ", "a", "t", " ", "G", "o", "a", "l">>
FoulText    == <<"F", "o", "u", "l">>
AssistText  == <<"A", "s", "s", "i", "s", "t">>
CornerText  == <<"C", "o", "r", "n", "e", "r">>
PassText    == <<"P", "a", "s", "s">>

WHITELIST_ATTACK == {AttemptText, GoalText}
WHITELIST_EVENTS == <<AttemptText, FoulText, GoalText, AssistText, CornerText>>

\* desc.str.strip().str.lower().isin({"goal", "goal!"})
IsGoalMarker(desc) ==
    Lower(Strip(desc)) \in {<<"g", "o", "a", "l">>, <<"g", "o", "a", "l", "!">>}

NoPlayerName == "NaN"   \* a PlayerName that the left merge left missing

\* names = {str(HomeId): HomeName, str(AwayId): AwayName}; TeamId.map(names)
TeamNameOf_homebydefault(row, id) ==
    IF id = row.AwayId THEN row.AwayName ELSE row.HomeName
TeamNameOf(row, id) ==
    IF id = row.AwayId THEN row.AwayName
    ELSE IF id = row.HomeId THEN row.HomeName
    ELSE NoTeam

\* The squads table: None, or the rows of get_players_for_teams (no rows, and
\* no columns, when the squad requests returned no player).
NoSquads == [given |-> FALSE, rows |-> <<>>]
Squads(rows) == [given |-> TRUE, rows |-> rows]

RECURSIVE MergePlayerName(_, _)
\* df.merge(squads[["PlayerId", "PlayerName"]], on="PlayerId", how="left"):
\* every event row, in order, once per squad row of its player id, and once
\* with a missing name when the squad has no such row.
MergePlayerName(rows, squadRows) ==
    IF rows = <<>> THEN <<>>
    ELSE LET r    == Head(rows)
             hits == SelectSeq(squadRows, LAMBDA p : p.PlayerId = r.PlayerId)
             out  == IF hits = <<>>
                     THEN <<[r EXCEPT !.PlayerName = NoPlayerName]>>
                     ELSE [i \in 1..Len(hits) |->
                              [r EXCEPT !.PlayerName = hits[i].PlayerName]]
         IN  out \o MergePlayerName(Tail(rows), squadRows)

\* (sec / 60.0).round().astype(int): halves go to the even minute
RoundMinute(sec) ==
    LET q == sec \div SecondsPerMinute
        r == sec % SecondsPerMinute
    IN  IF 2 * r < SecondsPerMinute THEN q
        ELSE IF 2 * r > SecondsPerMinute THEN q + 1
        ELSE IF q % 2 = 0 THEN q ELSE q + 1

\* An event with the columns that build_attack_df and process_timeline add,
\* still empty.
WithColumns(ev, row) ==
    [TeamId |-> ev.TeamId, PlayerId |-> ev.PlayerId, Description |-> ev.Description,
     MatchMinute |-> ev.MatchMinute, TeamName |-> TeamNameOf(row, ev.TeamId),
     PlayerName |-> "", sec |-> 0, minute |-> 0, label |-> <<>>, w |-> 0]

\* f"{int(m):02d}'": the minute in two digits at least, and an apostrophe
MinuteLabel(m) == Pad2(m) \o <<"'">>

\* The time columns and the weight of one row of the attack table; the label
\* is made of (sec // 60), the minute of round(sec / 60).
WithTimeAndWeight(r) ==
    LET sec == parse_time_to_seconds(r.MatchMinute).val
    IN  [r EXCEPT !.sec = sec, !.minute = RoundMinute(sec),
                  !.label = MinuteLabel(sec \div SecondsPerMinute),
                  !.w = IF IsGoalMarker(r.Description) THEN GOAL_WEIGHT
                        ELSE ATTEMPT_WEIGHT]

build_attack_df(events, row, squads) ==
    LET kept   == SelectSeq(events, LAMBDA ev : ev.Description \in WHITELIST_ATTACK)
        named  == [i \in 1..Len(kept) |-> WithColumns(kept[i], row)]
        merged == IF squads.given /\ squads.rows # <<>>
                  THEN MergePlayerName(named, squads.rows)
                  ELSE named
    IN  [ok   |-> \A i \in 1..Len(merged) :
                      parse_time_to_seconds(merged[i].MatchMinute).ok,
         rows |-> [i \in 1..Len(merged) |-> WithTimeAndWeight(merged[i])]]

build_goals_only(attack) ==
    SelectSeq(attack, LAMBDA r : IsGoalMarker(r.Description))

\* ---- orders that a sort may leave its rows in

RECURSIVE SortOrdersOf(_, _)
\* The orders of the positions S that put their keys in ascending order
SortOrdersOf(keys, S) ==
    IF S = {} THEN {<<>>}
    ELSE LET least == {x \in S : \A y \in S : keys[x] <= keys[y]}
         IN  UNION {{<<x>> \o p : p \in SortOrdersOf(keys, S \ {x})} : x \in least}

\* sort_values(..) with the default kind ("quicksort", not stable): every
\* permutation that puts the keys in ascending order; rows of equal keys may
\* come out in any order.
SortOrders(keys) == SortOrdersOf(keys, 1..Len(keys))

Permuted(rows, p) == [i \in 1..Len(rows) |-> rows[p[i]]]

\* ord(c) of the characters of a MatchMinute text
CodePoint(c) ==
    CASE c = " " -> 32 [] c = "\"" -> 34 [] c = "'" -> 39 [] c = "+" -> 43
      [] c = ":" -> 58 [] c = "M" -> 77 [] c = "P" -> 80 [] c = "S" -> 83
      [] c = "T" -> 84
      [] OTHER -> 48 + DigitVal(c)

RECURSIVE StrLess(_, _)
\* a < b for two Python strings
StrLess(a, b) ==
    IF b = <<>> THEN FALSE
    ELSE IF a = <<>> THEN TRUE
    ELSE IF Head(a) # Head(b) THEN CodePoint(Head(a)) < CodePoint(Head(b))
    ELSE StrLess(Tail(a), Tail(b))

\* The rank of every row's raw MatchMinute string among the rows' strings
MatchMinuteRanks(rows) ==
    [i \in 1..Len(rows) |->
        Cardinality({j \in 1..Len(rows) :
            StrLess(PyStr(rows[j].MatchMinute), PyStr(rows[i].MatchMinute))})]

\* ---- process_timeline

FillNaText(v) == IF v \in {NoTeam, NoPlayerName} THEN "" ELSE v

\* The rows of process_timeline before the final sort; raises without a
\* squads table (no attribute .empty) and with an empty one (no column
\* PlayerName to select).
TimelineRows(events, squads, row) ==
    LET named  == [i \in 1..Len(events) |-> WithColumns(events[i], row)]
        merged == MergePlayerName(named, squads.rows)
        kept   == SelectSeq(merged, LAMBDA r : r.Description \in WHITELIST_ATTACK)
    IN  IF ~squads.given \/ squads.rows = <<>> THEN [ok |-> FALSE, rows |-> <<>>]
        ELSE [ok |-> TRUE,
              rows |-> [i \in 1..Len(kept) |->
                          [TeamId |-> kept[i].TeamId,
                           TeamName |-> FillNaText(kept[i].TeamName),
                           Description |-> kept[i].Description,
                           MatchMinute |-> kept[i].MatchMinute,
                           PlayerName |-> FillNaText(kept[i].PlayerName)]]]

\* process_timeline, its rows sorted by the raw MatchMinute string in the
\* order p
process_timeline(events, squads, row, p) ==
    LET t == TimelineRows(events, squads, row)
    IN  [ok |-> t.ok, rows |-> Permuted(t.rows, p)]

\* ---- compute_event_stats

\* flags_by_teamid(df_flags).get(id, ""): the flag of a team id
FlagOf(flags, id) ==
    LET hits == {i \in 1..Len(flags.rows) : flags.rows[i].TeamId = id}
    IN  IF hits = {} THEN "" ELSE flags.rows[Max(hits)].AbbreviationName

ZeroFill == "0"   \* the fill_value of reindex in a text column

\* The events whose TeamId maps to the name `team`
EventsOfTeam_anyteam(events, row, team) == events
EventsOfTeam(events, row, team) ==
    SelectSeq(events, LAMBDA ev : TeamNameOf(row, ev.TeamId) = team)

\* The number of events with a description in descs
CountWhere(events, descs) ==
    Len(SelectSeq(events, LAMBDA ev : ev.Description \in descs))

WhitelistSet == {WHITELIST_EVENTS[k] : k \in 1..Len(WHITELIST_EVENTS)}

\* One row of `counts` after the reindex to home-then-away order
CountsRow(events, row, flags, id, team) ==
    LET n == Len(EventsOfTeam(events, row, team))
    IN  IF n = 0 THEN [TeamName |-> team, Flag |-> ZeroFill, TotalEvents |-> 0]
        ELSE [TeamName |-> team, Flag |-> FlagOf(flags, id), TotalEvents |-> n]

\* One row of `dist_pivot` after the reindex: the zero frame when no event is
\* whitelisted, the pivot row of the team, or the filling of the reindex.
DistRow(events, row, flags, id, team) ==
    LET own   == EventsOfTeam(events, row, team)
        cells == [k \in 1..Len(WHITELIST_EVENTS) |->
                     CountWhere(own, {WHITELIST_EVENTS[k]})]
    IN  IF CountWhere(events, WhitelistSet) > 0 /\ CountWhere(own, WhitelistSet) = 0
        THEN [TeamName |-> team, Flag |-> ZeroFill, cells |-> cells]
        ELSE [TeamName |-> team, Flag |-> FlagOf(flags, id), cells |-> cells]

\* compute_event_stats: (counts, dist_pivot); raises when get_team_flags does.
compute_event_stats(events, row, flags) ==
    [ok     |-> flags.ok,
     counts |-> <<CountsRow(events, row, flags, row.HomeId, row.HomeName),
                  CountsRow(events, row, flags, row.AwayId, row.AwayName)>>,
     dist   |-> <<DistRow(events, row, flags, row.HomeId, row.HomeName),
                  DistRow(events, row, flags, row.AwayId, row.AwayName)>>]

\* ---- plot_top_players

PlayerNamesSorted == <<"", "Ana", "Ann", "Bea">>

RECURSIVE SumScore(_)
\* The sum of score = np.where(desc.isin({"goal", "goal!"}), 2.0, 1.0)
SumScore(rows) ==
    IF rows = <<>> THEN 0
    ELSE (IF IsGoalMarker(Head(rows).Description) THEN GOAL_WEIGHT ELSE ATTEMPT_WEIGHT)
           + SumScore(Tail(rows))

\* df.groupby(["PlayerName", "TeamName"], as_index=False)["score"].sum(): one
\* row per pair that occurs, keys sorted, rows with a missing key dropped.
PlayerGroups(attack) ==
    LET RowOf(i, j) ==
            LET g == SelectSeq(attack, LAMBDA r :
                         /\ r.PlayerName = PlayerNamesSorted[i]
                         /\ r.TeamName = TeamNamesSorted[j])
            IN  IF g = <<>> THEN <<>>
                ELSE <<[PlayerName |-> PlayerNamesSorted[i],
                        TeamName |-> TeamNamesSorted[j], score |-> SumScore(g)]>>
        OfPlayer(i) == RowOf(i, 1) \o RowOf(i, 2) \o RowOf(i, 3)
    IN  OfPlayer(1) \o OfPlayer(2) \o OfPlayer(3) \o OfPlayer(4)

\* .head(top_n)
HeadRows(rows, n) == SubSeq(rows, 1, Min({n, Len(rows)}))

\* The table `agg` of plot_top_players, sorted by descending score in the
\* order p
plot_top_players(attack, top_n, p) ==
    HeadRows(Permuted(PlayerGroups(attack), p), top_n)

TopOrders(attack) ==
    LET g == PlayerGroups(attack)
    IN  SortOrders([i \in 1..Len(g) |-> 0 - g[i].score])

\* ---- plot_cumulative

\* str(t) of a TeamName
TeamStr(t) == IF t = NoTeam THEN "nan" ELSE t

Opponent == "(opponent)"

RECURSIVE Uniq(_, _)
\* The first two distinct elements of a sequence, in order
Uniq(names, seen) ==
    IF names = <<>> \/ Len(seen) = 2 THEN seen
    ELSE IF \E k \in 1..Len(seen) : seen[k] = Head(names)
         THEN Uniq(Tail(names), seen)
         ELSE Uniq(Tail(names), Append(seen, Head(names)))

\* teams_ordered: raises IndexError on an empty column
teams_ordered(names) ==
    LET uniq == Uniq([i \in 1..Len(names) |-> TeamStr(names[i])], <<>>)
    IN  IF uniq = <<>> THEN [ok |-> FALSE, teams |-> <<>>]
        ELSE IF Len(uniq) = 1 THEN [ok |-> TRUE, teams |-> <<uniq[1], Opponent>>]
        ELSE [ok |-> TRUE, teams |-> uniq]

RECURSIVE CumSum(_, _)
CumSum(rows, acc) ==
    IF rows = <<>> THEN <<>>
    ELSE <<acc + Head(rows).w>> \o CumSum(Tail(rows), acc + Head(rows).w)

\* df_goles[df_goles["TeamName"] == team]
RowsOfTeam(attack, team) == SelectSeq(attack, LAMBDA r : r.TeamName = team)

SecOrders(rows) == SortOrders([i \in 1..Len(rows) |-> rows[i].sec])

\* The step line of one team: x = sec (the division by 60 is left to the
\* reader of x), y = cumsum of w, over the team's rows sorted by sec in the
\* order p.
CumulativeLine(attack, team, p) ==
    LET tmp == Permuted(RowsOfTeam(attack, team), p)
    IN  [team |-> team, x |-> [i \in 1..Len(tmp) |-> tmp[i].sec], y |-> CumSum(tmp, 0)]

\* ---- inputs of the event tables

MaxEvents == 2   \* event lists of 0..MaxEvents events
MaxTopN   == 2   \* top_n in 0..MaxTopN

Event(t, p, d, mm) == [TeamId |-> t, PlayerId |-> p, Description |-> d, MatchMinute |-> Str(mm)]

\* Events of the home team "1", the away team "2" and a team "9" that does
\* not play the match; player "p3" is in no squad.
EventShapes ==
    {Event(t, "p1", d, <<"5", "'">>) : t \in {"1", "2", "9"}, d \in {GoalText, AttemptText}}
      \cup {Event("1", p, AttemptText, mm) :
                p \in {"p2", "p3"}, mm \in {<<"1", ":", "3", "0">>, <<"4", "1", "'">>}}
      \cup {Event("2", "p2", d, <<"6", "'">>) : d \in {FoulText, Lower(GoalText), PassText}}

SquadChoices ==
    {NoSquads, Squads(<<>>),
     Squads(<<[PlayerId |-> "p1", PlayerName |-> "Bea"]>>),
     Squads(<<[PlayerId |-> "p1", PlayerName |-> "Bea"],
              [PlayerId |-> "p2", PlayerName |-> "Ana"]>>),
     Squads(<<[PlayerId |-> "p1", PlayerName |-> "Bea"],
              [PlayerId |-> "p1", PlayerName |-> "Ann"]>>)}

\* One attacking event of every team id, in each order
ThreeTeamEvents ==
    {<<Event(q[1], "p1", AttemptText, <<"5", "'">>),
       Event(q[2], "p1", AttemptText, <<"5", "'">>),
       Event(q[3], "p1", GoalText, <<"5", "'">>)>> :
        q \in {f \in [1..3 -> {"1", "2", "9"}] : f[1] # f[2] /\ f[1] # f[3] /\ f[2] # f[3]}}

PageMatch == [HomeId |-> "1", HomeName |-> "A", AwayId |-> "2", AwayName |-> "B"]

\* ---- the event tables as a state machine: one entry call per behaviour,
\* and one call on the attack table it built

EntryIdle ==
    /\ attack_out = NotCalled /\ timeline = NotCalled /\ stats = NotCalled
    /\ main_score = NotCalled /\ info_score = NotCalled

DownstreamIdle ==
    /\ minute_df = NotCalled
    /\ goals_df = NotCalled
    /\ top_players = NotCalled
    /\ cumulative = NotCalled

PageIdle ==
    /\ df_events = <<>>
    /\ df_squads = NoSquads
    /\ EntryIdle
    /\ goals_df = NotCalled
    /\ top_players = NotCalled
    /\ cumulative = NotCalled

CallProcessTimeline ==
    /\ EntryIdle
    /\ \E p \in SortOrders(MatchMinuteRanks(
                    TimelineRows(df_events, df_squads, match_row).rows)) :
          timeline' = [called |-> TRUE,
                       result |-> process_timeline(df_events, df_squads, match_row, p)]
    /\ UNCHANGED <<scoreVars, df_events, df_squads, attack_out, stats, goals_df, top_players,
                   cumulative, matrixVars>>

CallComputeEventStats ==
    /\ EntryIdle
    /\ \E flags \in FlagChoices :
          stats' = [called |-> TRUE,
                    result |-> compute_event_stats(df_events, match_row, flags)]
    /\ UNCHANGED <<scoreVars, df_events, df_squads, attack_out, timeline, goals_df, top_players,
                   cumulative, matrixVars>>

CallBuildAttackDf ==
    /\ EntryIdle
    /\ LET r == build_attack_df(df_events, match_row, df_squads)
       IN  /\ attack_out' = [called |-> TRUE, ok |-> r.ok]
           /\ df_attack' = r.rows
    /\ UNCHANGED <<scoreVars, df_events, df_squads, timeline, stats, goals_df, top_players,
                   cumulative, match_row, minute_df>>

AttackBuilt == attack_out.called /\ attack_out.ok /\ DownstreamIdle

CallBuildMinuteMatrixOfPage ==
    /\ AttackBuilt
    /\ CallBuildMinuteMatrix
    /\ UNCHANGED <<scoreVars, df_events, df_squads, attack_out, timeline, stats, goals_df, top_players,
                   cumulative>>

CallBuildGoalsOnly ==
    /\ AttackBuilt
    /\ goals_df' = [called |-> TRUE, rows |-> build_goals_only(df_attack)]
    /\ UNCHANGED <<scoreVars, df_events, df_squads, attack_out, timeline, stats, top_players, cumulative,
                   matrixVars>>

CallPlotTopPlayers ==
    /\ AttackBuilt
    /\ \E top_n \in 0..MaxTopN : \E p \in TopOrders(df_attack) :
          top_players' = [called |-> TRUE, top_n |-> top_n,
                          agg |-> plot_top_players(df_attack, top_n, p)]
    /\ UNCHANGED <<scoreVars, df_events, df_squads, attack_out, timeline, stats, goals_df, cumulative,
                   matrixVars>>

CallPlotCumulative ==
    /\ AttackBuilt
    /\ LET teams == teams_ordered([i \in 1..Len(df_attack) |-> df_attack[i].TeamName])
       IN  IF ~teams.ok
           THEN cumulative' = [called |-> TRUE, ok |-> FALSE, lines |-> <<>>]
           ELSE \E p1 \in SecOrders(RowsOfTeam(df_attack, teams.teams[1])) :
                \E p2 \in SecOrders(RowsOfTeam(df_attack, teams.teams[2])) :
                    cumulative' =
                        [called |-> TRUE, ok |-> TRUE,
                         lines |-> <<CumulativeLine(df_attack, teams.teams[1], p1),
                                     CumulativeLine(df_attack, teams.teams[2], p2)>>]
    /\ UNCHANGED <<scoreVars, df_events, df_squads, attack_out, timeline, stats, goals_df, top_players,
                   matrixVars>>

\* ---- the score of the match

\* main: the events whose Description is exactly "Goal!", counted by TeamId
MainScore(events, row) ==
    LET goals == SelectSeq(events, LAMBDA ev : ev.Description = GoalText)
    IN  [home |-> Len(SelectSeq(goals, LAMBDA ev : ev.TeamId = row.HomeId)),
         away |-> Len(SelectSeq(goals, LAMBDA ev : ev.TeamId = row.AwayId))]

\* 3_Infographic: the events whose stripped, lower-cased Description is
\* "goal" or "goal!", counted by TeamId
_compute_score(events, home_id, away_id) ==
    LET g == SelectSeq(events, LAMBDA ev :
                 Lower(Strip(ev.Description)) \in
                     {<<"g", "o", "a", "l">>, <<"g", "o", "a", "l", "!">>})
    IN  [home |-> Len(SelectSeq(g, LAMBDA ev : ev.TeamId = home_id)),
         away |-> Len(SelectSeq(g, LAMBDA ev : ev.TeamId = away_id))]

CallMainScore ==
    /\ EntryIdle
    /\ main_score' = [called |-> TRUE, score |-> MainScore(df_events, match_row)]
    /\ UNCHANGED <<info_score, df_events, df_squads, attack_out, timeline, stats,
                   goals_df, top_players, cumulative, matrixVars>>

CallComputeScore ==
    /\ EntryIdle
    /\ info_score' = [called |-> TRUE,
                      score |-> _compute_score(df_events, match_row.HomeId,
                                               match_row.AwayId)]
    /\ UNCHANGED <<main_score, df_events, df_squads, attack_out, timeline, stats,
                   goals_df, top_players, cumulative, matrixVars>>

\* ------------------------------------------------ login, logout and session

APP_USER     == "admin"
APP_PASSWORD == "admin"

\* _get_users(): {APP_USER: APP_PASSWORD}
Users == {APP_USER}
PasswordOf(u) == APP_PASSWORD

Absent  == "absent"   \* a key that st.session_state does not hold
PyTrue  == "True"
PyFalse == "False"

SessionKeys == {"authenticated", "username", "remember", "force_logout",
                "selected_match_id", "match_row", "team_colors",
                "home_match_select"}

EmptySession == [k \in SessionKeys |-> Absent]

\* bool(st.session_state.get(k))
Truthy(ss, k) == ss[k] \notin {Absent, PyFalse, ""}

\* st.session_state.pop(k, None) for every k of keys
Pop(ss, keys) == [k \in SessionKeys |-> IF k \in keys THEN Absent ELSE ss[k]]

\* A widget that a run does not render loses its state.
NotRendered(ss) == Pop(ss, {"home_match_select"})

\* bool(st.session_state.pop("force_logout", False))
ForceLogout_ignored(ss) == FALSE
ForceLogout(ss) == ss["force_logout"] = PyTrue

\* The keys that logout_button pops
LogoutKeys_authonly == {"authenticated", "username", "remember"}
LogoutKeys == {"authenticated", "username", "remember",
               "selected_match_id", "match_row", "team_colors"}

\* What the user does to start a run: a click on one of the Logout controls,
\* a submitted login form, a choice in the select box of main; and what the
\* surroundings do in the run: io.read, io.delete, io.set tell whether the
\* cookie component reads, deletes and sets the cookie (the code ignores its
\* failures), io.matches whether the API returned matches, io.colors whether
\* pick_match_colors returned, io.switch whether st.switch_page is there.
NoForm == [submitted |-> FALSE, user |-> "", pwd |-> "", remember |-> FALSE]

Sidebar == {"sidebar_logout", "logout_btn"}

\* How a run ends: the session and the cookie it leaves, the page whose
\* script ran last, the widgets on the screen, whether it asked for a rerun,
\* the Logout control it handled, whether it took valid credentials.
Outcome(ss, ck, pg, widgets, again, click, login) ==
    [ss |-> ss, cookie |-> ck, page |-> pg, shown |-> widgets, rerun |-> again,
     click |-> click, login |-> login]

\* login_page: result "user" when it returns the user, "rerun" after a valid
\* login, "stop" when it stops the run on the login form.
login_page(ss, ck, form, io) ==
    LET force_logout     == ForceLogout(ss)
        ss1              == Pop(ss, {"force_logout"})
        user_from_cookie == IF io.read THEN ck ELSE ""
        ck1              == IF force_logout /\ io.delete THEN "" ELSE ck
        valid            == form.user \in Users /\ form.pwd = PasswordOf(form.user)
    IN  IF Truthy(ss, "authenticated") /\ Truthy(ss, "username")
        THEN [ss |-> ss, cookie |-> ck, result |-> "user", login |-> FALSE]
        ELSE IF ~force_logout /\ user_from_cookie # "" /\ user_from_cookie \in Users
        THEN [ss |-> [ss1 EXCEPT !["authenticated"] = PyTrue,
                                 !["username"] = user_from_cookie],
              cookie |-> ck, result |-> "user", login |-> FALSE]
        ELSE IF form.submitted /\ valid
        THEN [ss |-> [ss1 EXCEPT !["authenticated"] = PyTrue,
                                 !["username"] = form.user,
                                 !["remember"] = IF form.remember THEN PyTrue
                                                 ELSE PyFalse],
              cookie |-> IF io.set THEN form.user ELSE ck1,
              result |-> "rerun", login |-> TRUE]
        ELSE [ss |-> ss1, cookie |-> ck1, result |-> "stop", login |-> FALSE]

\* sidebar_header, its Logout clicked: st.session_state.clear() and a rerun
sidebar_header(ck, pg) ==
    Outcome(EmptySession, ck, pg, {}, TRUE, "sidebar_logout", FALSE)

\* logout_button, its Logout clicked: the flag, the three attempts to delete
\* the cookie, the pops, and a rerun
logout_button(ss, ck, pg, io) ==
    Outcome(Pop([ss EXCEPT !["force_logout"] = PyTrue], LogoutKeys),
            IF io.delete THEN "" ELSE ck, pg, {}, TRUE, "logout_btn", FALSE)

\* main.py, up to the point where the data of the selected match is shown
main_script(ss, ck, inp) ==
    LET lp == login_page(ss, ck, inp.form, inp.io)
        selected == IF inp.choice # Absent THEN inp.choice
                    ELSE IF lp.ss["home_match_select"] # Absent
                    THEN lp.ss["home_match_select"]
                    ELSE lp.ss["selected_match_id"]
        ss2 == [lp.ss EXCEPT !["home_match_select"] = selected,
                             !["selected_match_id"] = selected,
                             !["match_row"] = selected]
    IN  IF lp.result # "user"
        THEN Outcome(NotRendered(lp.ss), lp.cookie, "main",
                     IF lp.result = "stop" THEN {"login_form"} ELSE {},
                     lp.result = "rerun", "none", lp.login)
        ELSE IF inp.click = "sidebar_logout" THEN sidebar_header(lp.cookie, "main")
        ELSE IF inp.click = "logout_btn"
        THEN logout_button(lp.ss, lp.cookie, "main", inp.io)
        ELSE IF ~inp.io.matches
        THEN Outcome(NotRendered(lp.ss), lp.cookie, "main", Sidebar, FALSE, "none", FALSE)
        ELSE IF selected = Absent
        THEN Outcome(lp.ss, lp.cookie, "main", Sidebar \cup {"select"}, FALSE,
                     "none", FALSE)
        ELSE IF ~inp.io.colors
        THEN Outcome(ss2, lp.cookie, "main", Sidebar \cup {"select"}, FALSE,
                     "none", FALSE)
        ELSE Outcome([ss2 EXCEPT !["team_colors"] = "set"], lp.cookie, "main",
                     Sidebar \cup {"select", "match_data"}, FALSE, "none", FALSE)

\* A run that the script starts itself, with no action of the user
NoAction(inp) == [inp EXCEPT !.click = "none", !.form = NoForm, !.choice = Absent]

\* pages/2_Statistics.py
statistics_script(ss, ck, inp) ==
    IF ~Truthy(ss, "authenticated")
    THEN IF inp.io.switch THEN main_script(ss, ck, NoAction(inp))
         ELSE Outcome(NotRendered(ss), ck, "Statistics", {}, FALSE, "none", FALSE)
    ELSE IF inp.click = "sidebar_logout" THEN sidebar_header(ck, "Statistics")
    ELSE IF inp.click = "logout_btn" THEN logout_button(ss, ck, "Statistics", inp.io)
    ELSE IF ~Truthy(ss, "match_row")
    THEN Outcome(NotRendered(ss), ck, "Statistics", Sidebar, FALSE, "none", FALSE)
    ELSE Outcome(NotRendered(ss), ck, "Statistics", Sidebar \cup {"match_data"},
                 FALSE, "none", FALSE)

\* pages/1_Timeline.py
timeline_script(ss, ck) ==
    Outcome(NotRendered(ss), ck, "Timeline",
            IF ss["match_row"] = Absent THEN {} ELSE {"match_data"},
            FALSE, "none", FALSE)

\* pages/3_Infographic.py
infographic_script(ss, ck, inp) ==
    IF inp.click = "sidebar_logout" THEN sidebar_header(ck, "Infographic")
    ELSE Outcome(NotRendered(ss), ck, "Infographic",
                 {"sidebar_logout"} \cup
                     (IF Truthy(ss, "match_row") /\ inp.io.colors
                      THEN {"match_data"} ELSE {}),
                 FALSE, "none", FALSE)

\* ---- inputs of the session

Matches      == {"m1", "m2"}
CookieValues == {"", APP_USER, "ghost"}

Forms ==
    {NoForm} \cup
    {[submitted |-> TRUE, user |-> u, pwd |-> p, remember |-> r] :
        u \in {APP_USER, "ghost"}, p \in {APP_PASSWORD, "wrong"}, r \in BOOLEAN}

IoChoices == [read : BOOLEAN, delete : BOOLEAN, set : BOOLEAN, matches : BOOLEAN,
              colors : BOOLEAN, switch : BOOLEAN]

RunInputs ==
    {[click |-> c, form |-> f, choice |-> m, io |-> io] :
        c \in {"none"} \cup Sidebar, f \in Forms, m \in Matches \cup {Absent},
        io \in IoChoices}

\* The user acts on what the last run of this page left on the screen, one
\* widget at a time; a run that the script asked for has no action of the
\* user and is of the same page.
MayStart(pg, inp) ==
    /\ inp.click # "none" => page = pg /\ inp.click \in shown
    /\ inp.form.submitted => page = pg /\ "login_form" \in shown
    /\ inp.choice # Absent => page = pg /\ "select" \in shown
    /\ Cardinality({b \in {inp.click # "none", inp.form.submitted,
                           inp.choice # Absent} : b}) <= 1
    /\ rerun => page = pg /\ inp = NoAction(inp)

AuthIdle ==
    /\ session_state = EmptySession
    /\ cookie = ""
    /\ page = "main"
    /\ shown = {}
    /\ rerun = FALSE
    /\ last_click = "none"
    /\ prev_click = "none"
    /\ logged_out = FALSE

\* ---- the session as a state machine: one action per script run

Finish(out) ==
    /\ session_state' = out.ss
    /\ cookie' = out.cookie
    /\ page' = out.page
    /\ shown' = out.shown
    /\ rerun' = out.rerun
    /\ prev_click' = last_click
    /\ last_click' = out.click
    /\ logged_out' = IF out.click # "none" THEN TRUE
                     ELSE IF out.login THEN FALSE
                     ELSE logged_out

RunMain ==
    \E inp \in RunInputs :
        MayStart("main", inp) /\ Finish(main_script(session_state, cookie, inp))

RunStatistics ==
    \E inp \in RunInputs :
        MayStart("Statistics", inp)
            /\ Finish(statistics_script(session_state, cookie, inp))

RunTimeline ==
    \E inp \in RunInputs :
        /\ inp = NoAction(inp)
        /\ MayStart("Timeline", inp)
        /\ Finish(timeline_script(session_state, cookie))

RunInfographic ==
    \E inp \in RunInputs :
        /\ inp.click # "logout_btn"
        /\ MayStart("Infographic", inp)
        /\ Finish(infographic_script(session_state, cookie, inp))

\* ------------------------------------------------------------ specifications

InitParse ==
    /\ raw \in ParseInputs
    /\ parsed = NotCalled
    /\ EwmaIdle /\ MatrixIdle /\ ColorIdle /\ PageIdle /\ AuthIdle

NextParse == CallParse /\ UNCHANGED <<ewmaVars, matrixVars, colorVars, pageVars, authVars>>

SpecParse == InitParse /\ [][NextParse]_vars

InitEwma ==
    /\ series \in EwmaInputs
    /\ smoothed = NotCalled
    /\ ParseIdle /\ MatrixIdle /\ ColorIdle /\ PageIdle /\ AuthIdle

NextEwma == CallEwma /\ UNCHANGED <<parseVars, matrixVars, colorVars, pageVars, authVars>>

SpecEwma == InitEwma /\ [][NextEwma]_vars

InitMatrix ==
    /\ df_attack \in SeqsUpTo(AttackRows, MaxRows)
    /\ match_row \in MatchRows
    /\ minute_df = NotCalled
    /\ ParseIdle /\ EwmaIdle /\ ColorIdle /\ PageIdle /\ AuthIdle

NextMatrix == CallBuildMinuteMatrix /\ UNCHANGED <<parseVars, ewmaVars, colorVars, pageVars, authVars>>

SpecMatrix == InitMatrix /\ [][NextMatrix]_vars

InitColors ==
    /\ hashHue \in [TeamNames -> HueSet]
    /\ pid = 1
    /\ df_flags \in FlagChoices
    /\ df_db \in DbChoices
    /\ prevCall = NoCall
    /\ lastCall = NoCall
    /\ ParseIdle /\ EwmaIdle /\ MatrixIdle /\ PageIdle /\ AuthIdle

NextColors ==
    \/ StartProcess /\ UNCHANGED <<parseVars, ewmaVars, matrixVars, pageVars, authVars>>
    \/ CallPickMatchColors /\ UNCHANGED <<parseVars, ewmaVars, matrixVars, pageVars, authVars>>

SpecColors == InitColors /\ [][NextColors]_vars

InitPage ==
    /\ df_events \in SeqsUpTo(EventShapes, MaxEvents) \cup ThreeTeamEvents
    /\ df_squads \in SquadChoices
    /\ match_row = PageMatch
    /\ df_attack = <<>>
    /\ minute_df = NotCalled
    /\ EntryIdle
    /\ goals_df = NotCalled
    /\ top_players = NotCalled
    /\ cumulative = NotCalled
    /\ ParseIdle /\ EwmaIdle /\ ColorIdle /\ AuthIdle

NextPage ==
    \/ CallProcessTimeline /\ UNCHANGED <<parseVars, ewmaVars, colorVars, authVars>>
    \/ CallComputeEventStats /\ UNCHANGED <<parseVars, ewmaVars, colorVars, authVars>>
    \/ CallBuildAttackDf /\ UNCHANGED <<parseVars, ewmaVars, colorVars, authVars>>
    \/ CallBuildMinuteMatrixOfPage /\ UNCHANGED <<parseVars, ewmaVars, colorVars, authVars>>
    \/ CallBuildGoalsOnly /\ UNCHANGED <<parseVars, ewmaVars, colorVars, authVars>>
    \/ CallPlotTopPlayers /\ UNCHANGED <<parseVars, ewmaVars, colorVars, authVars>>
    \/ CallPlotCumulative /\ UNCHANGED <<parseVars, ewmaVars, colorVars, authVars>>
    \/ CallMainScore /\ UNCHANGED <<parseVars, ewmaVars, colorVars, authVars>>
    \/ CallComputeScore /\ UNCHANGED <<parseVars, ewmaVars, colorVars, authVars>>

SpecPage == InitPage /\ [][NextPage]_vars

InitAuth ==
    /\ session_state = EmptySession
    /\ cookie \in CookieValues
    /\ page = "main"
    /\ shown = {}
    /\ rerun = FALSE
    /\ last_click = "none"
    /\ prev_click = "none"
    /\ logged_out = FALSE
    /\ ParseIdle /\ EwmaIdle /\ MatrixIdle /\ ColorIdle /\ PageIdle

NextAuth ==
    \/ RunMain /\ UNCHANGED <<parseVars, ewmaVars, matrixVars, colorVars, pageVars>>
    \/ RunStatistics /\ UNCHANGED <<parseVars, ewmaVars, matrixVars, colorVars, pageVars>>
    \/ RunTimeline /\ UNCHANGED <<parseVars, ewmaVars, matrixVars, colorVars, pageVars>>
    \/ RunInfographic /\ UNCHANGED <<parseVars, ewmaVars, matrixVars, colorVars, pageVars>>

SpecAuth == InitAuth /\ [][NextAuth]_vars

\* -------------------------------------------------------------- properties

HasDigit(s) == \E i \in 1..Len(s) : IsDigit(s[i])

C2_ColonAndIsoAgree ==
    parsed.called =>
        \A c \in CanonicalCases : raw = Str(c.input) => parsed.result = Ok(c.seconds)

C2_Witness ==
    /\ parsed.called
    /\ raw = Str(<<"P", "T", "1", "2", "M", "3", "4", "S">>)
    /\ parsed.result = Ok(754)

\* C3: a string made of decimal digits only is read as whole minutes: the
\* result is 60 times its value, never its value as seconds.
C3_DigitsAreMinutes ==
    (parsed.called /\ raw.kind = "str" /\ re_fullmatch_digits(raw.chars)) =>
        parsed.result = Ok(60 * DecimalValue(raw.chars))

C3_Witness ==
    /\ parsed.called
    /\ raw = Str(<<"7">>)
    /\ parsed.result = Ok(420)

\* C4: for a non-empty series and tau > 0, the first smoothed value is the
\* first raw value, whatever dt and the later values are.
C4_FirstValueKept ==
    (smoothed.called /\ Len(series.x) > 0 /\ series.tau > 0) =>
        smoothed.y[1] = FromInt(series.x[1])

C4_Witness ==
    /\ smoothed.called
    /\ Len(series.x) >= 2
    /\ series.tau > 0
    /\ series.dt > 0
    /\ series.x[1] # 0
    /\ smoothed.y[1] = FromInt(series.x[1])
    /\ smoothed.y[2] # smoothed.y[1]

\* C5: the smoothed series is as long as the input series, for every dt and
\* tau (tau <= 0 included); the empty series is returned as it is.
C5_LengthKept ==
    smoothed.called =>
        /\ Len(smoothed.y) = Len(series.x)
        /\ series.x = <<>> => smoothed.y = <<>>

C5_Witness ==
    /\ smoothed.called
    /\ series.tau <= 0
    /\ Len(series.x) = MaxSeriesLen
    /\ Len(smoothed.y) = MaxSeriesLen

InTable(name) ==
    db_lookup_palette(df_db.rows, name, AbbrOf(df_flags, TeamIdOf(name))).found

\* C6: for two distinct team names that the colour table does not know, the
\* returned colours are at least the threshold (Delta E 20) apart.
C6_FallbackNeverClashes ==
    (/\ lastCall.called
     /\ lastCall.args[1] # lastCall.args[2]
     /\ ~InTable(lastCall.args[1])
     /\ ~InTable(lastCall.args[2])
     /\ lastCall.result.ok) =>
        _delta_e76(lastCall.result.home_color, lastCall.result.away_color).val
            >= SimilarDelta

\* C7: every returned palette, whatever the colour table holds, has a home
\* and an away colour that the similarity test tells apart.
C7_PaletteNeverSimilar ==
    (lastCall.called /\ lastCall.result.ok) =>
        ~_similar(lastCall.result.home_color, lastCall.result.away_color)

C9_FallbackStableAcrossRuns ==
    (/\ prevCall.called
     /\ lastCall.called
     /\ prevCall.args = lastCall.args
     /\ ~InTable(lastCall.args[1])) =>
        prevCall.result.home_color = lastCall.result.home_color

HomeRowsAt(m) ==
    SelectSeq(df_attack, LAMBDA r : r.minute = m /\ r.TeamName = match_row.HomeName)
AwayRowsAt(m) ==
    SelectSeq(df_attack, LAMBDA r : r.minute = m /\ r.TeamName = match_row.AwayName)

\* C10: the minute matrix has exactly 41 rows, the minutes 0..40 in increasing
\* order, for any attack table, and a team's cell of a minute without events
\* of that team is 0.
C10_MinuteAxisComplete ==
    minute_df.called =>
        /\ Len(minute_df.mat) = 41
        /\ \A i \in 1..Len(minute_df.mat) :
             /\ minute_df.mat[i].minute = i - 1
             /\ HomeRowsAt(i - 1) = <<>> => minute_df.mat[i].team_a = 0
             /\ AwayRowsAt(i - 1) = <<>> => minute_df.mat[i].team_b = 0

C10_Witness ==
    /\ minute_df.called
    /\ Len(df_attack) = 2
    /\ df_attack[1].minute = df_attack[2].minute
    /\ df_attack[1].minute <= LastMinute
    /\ df_attack[1].TeamName = match_row.HomeName
    /\ df_attack[2].TeamName = match_row.HomeName
    /\ match_row.HomeName # match_row.AwayName
    /\ Len(minute_df.mat) = 41
    /\ minute_df.mat[df_attack[1].minute + 1].team_a = df_attack[1].w + df_attack[2].w



\* The string the parser works on: str(val).strip() with the quotes normalized.
Normalized(val) == NormalizeQuotes(Strip(PyStr(val)))

IsIsoLike(s) == StartsWith(s, <<"P", "T">>) /\ EndsWith(s, <<"S">>)

\* What the duration rule of the specification gives for a 'PT...S' string: the
\* digits of the leftmost "<digits>M" component as minutes (0 without one),
\* the digits between that M and the final S as seconds and, without an M
\* component, the digits before the S as seconds.
IsoByComponents(s) ==
    LET m        == re_search(s, <<>>, "M")
        sec      == re_search(s, <<"M">>, "S")
        sec_only == re_search(s, <<>>, "S")
    IN  IF m.matched
        THEN MinSec(PyInt(m.group1), IntOrZero(sec.matched, sec.group1))
        ELSE IntOrZero(sec_only.matched, sec_only.group1)

\* C19: for every string with prefix "PT" and suffix "S" the parser returns
\* 60 * (digits of the "<digits>M" component, 0 if none) + (digits between
\* that M and the final S or, without an M component, the digits before S),
\* also when another component, such as hours, precedes the minutes.
C19_IsoComponentsAnywhere ==
    (parsed.called /\ raw.kind = "str" /\ IsIsoLike(Normalized(raw)))
        => parsed.result = IsoByComponents(Normalized(raw))

\* C20: a string that is not ISO-like and holds no colon or apostrophe is read
\* as seconds exactly when it ends with a double quote or contains "sec"
\* (any case); otherwise, a double quote elsewhere in it included, it is read
\* by the digits-as-minutes rules.
C20_SecondsOnlyOnTrailingQuote ==
    LET s      == Normalized(raw)
        marker == EndsWith(s, <<"\"">>) \/ Contains(Lower(s), <<"s", "e", "c">>)
    IN  (parsed.called /\ raw.kind = "str" /\ ~IsIsoLike(s)
            /\ ~Contains(s, <<":">>) /\ ~Contains(s, <<"'">>))
          => parsed.result = IF marker THEN ParseSecondsOnly(s)
                             ELSE IF re_fullmatch_digits(s) THEN ParsePureInteger(s)
                             ELSE ParseLastResort(s)

\* C17: pick_match_colors returns a palette whatever the external lookups do:
\* a flag lookup that raises, a colour table that is missing or unreadable,
\* a colour value in the table that is no "#RRGGBB" string.
C17_LookupFailureNeverFails ==
    lastCall.called => lastCall.result.ok

\* ---- properties of the event tables

\* The weight of an input event: 2 per "Goal!", 1 per "Attempt at Goal"
EventWeight(ev) ==
    IF ev.Description = GoalText THEN 2
    ELSE IF ev.Description = AttemptText THEN 1
    ELSE 0

RECURSIVE SumEventWeights(_)
SumEventWeights(events) ==
    IF events = <<>> THEN 0
    ELSE EventWeight(Head(events)) + SumEventWeights(Tail(events))

\* The minute of an input event: its parsed time, rounded to minutes
EventMinute(ev) == RoundMinute(parse_time_to_seconds(ev.MatchMinute).val)

\* The input events of one team in one minute
EventsAt(id, m) ==
    SelectSeq(df_events, LAMBDA ev : ev.TeamId = id /\ EventMinute(ev) = m)

\* C11: build_attack_df followed by build_minute_matrix gives, for each minute
\* 0..40, team_a = the summed weights of the home team's input events of that
\* minute and team_b = those of the away team: every attacking input event
\* is counted exactly once, whatever the squad lookup is.
C11_EachEventCountedOnce ==
    (attack_out.called /\ minute_df.called) =>
        \A i \in 1..Len(minute_df.mat) :
            LET row == minute_df.mat[i]
            IN  /\ row.team_a = SumEventWeights(EventsAt(match_row.HomeId, row.minute))
                /\ row.team_b = SumEventWeights(EventsAt(match_row.AwayId, row.minute))

\* The rows of the attack table that stem from one input event
RowsOfEvent(ev) ==
    SelectSeq(df_attack, LAMBDA r :
        /\ r.TeamId = ev.TeamId /\ r.PlayerId = ev.PlayerId
        /\ r.Description = ev.Description /\ r.MatchMinute = ev.MatchMinute)

\* C13: an input event whose description is a goal marker in any
\* capitalization is in the attack table with weight 2.0, any other
\* whitelisted attacking event is in it with weight 1.0, and no other event
\* is in it.
C13_GoalMarkerAnyCase ==
    attack_out.called =>
        \A i \in 1..Len(df_events) :
            LET ev   == df_events[i]
                rows == RowsOfEvent(ev)
            IN  IF IsGoalMarker(ev.Description)
                THEN rows # <<>> /\ \A k \in 1..Len(rows) : rows[k].w = 2
                ELSE IF ev.Description \in WHITELIST_ATTACK
                THEN rows # <<>> /\ \A k \in 1..Len(rows) : rows[k].w = 1
                ELSE rows = <<>>

\* Whether the squad lookup resolves a player id
Resolved(id) ==
    /\ df_squads.given
    /\ \E k \in 1..Len(df_squads.rows) : df_squads.rows[k].PlayerId = id

\* C14: without a squad lookup, with an empty one, or for a player id the
\* lookup does not hold, build_attack_df and process_timeline give the empty
\* string as player name, and neither raises.
C14_UnresolvedPlayerIsEmpty ==
    /\ attack_out.called =>
          /\ attack_out.ok
          /\ \A k \in 1..Len(df_attack) :
                ~Resolved(df_attack[k].PlayerId) => df_attack[k].PlayerName = ""
    /\ timeline.called =>
          /\ timeline.result.ok
          /\ \A k \in 1..Len(timeline.result.rows) :
                LET r == timeline.result.rows[k]
                IN  (\A j \in 1..Len(df_events) :
                        df_events[j].MatchMinute = r.MatchMinute
                            /\ df_events[j].TeamId = r.TeamId
                            /\ df_events[j].Description = r.Description
                          => ~Resolved(df_events[j].PlayerId))
                      => r.PlayerName = ""

IsMatchTeam(id) == id \in {match_row.HomeId, match_row.AwayId}

\* The rows of the attack table of one team id in one minute
AttackRowsAt(id, m) ==
    SelectSeq(df_attack, LAMBDA r : r.TeamId = id /\ r.minute = m)

\* C15: an attacking event of a team that is neither the home nor the away
\* team never makes the pipeline fail: build_attack_df keeps its row, with a
\* missing team name, and build_minute_matrix adds its weight to neither
\* team_a nor team_b (each cell is the weight of the rows of its own team).
C15_UnknownTeamIsIgnored ==
    /\ attack_out.called =>
          /\ attack_out.ok
          /\ \A i \in 1..Len(df_events) :
                (df_events[i].Description \in WHITELIST_ATTACK
                    /\ ~IsMatchTeam(df_events[i].TeamId))
                  => /\ RowsOfEvent(df_events[i]) # <<>>
                     /\ \A k \in 1..Len(RowsOfEvent(df_events[i])) :
                           RowsOfEvent(df_events[i])[k].TeamName = NoTeam
    /\ (attack_out.called /\ minute_df.called) =>
          \A i \in 1..Len(minute_df.mat) :
              LET row == minute_df.mat[i]
              IN  /\ row.team_a = SumW(AttackRowsAt(match_row.HomeId, row.minute))
                  /\ row.team_b = SumW(AttackRowsAt(match_row.AwayId, row.minute))

C15_Witness ==
    /\ attack_out.called
    /\ minute_df.called
    /\ \E k \in 1..Len(df_attack) :
          /\ ~IsMatchTeam(df_attack[k].TeamId)
          /\ df_attack[k].TeamName = NoTeam
          /\ df_attack[k].minute <= LastMinute
          /\ minute_df.mat[df_attack[k].minute + 1].team_a = 0
          /\ minute_df.mat[df_attack[k].minute + 1].team_b = 0

\* C16: on an empty event list every aggregation step completes and returns a
\* well-formed empty result: no rows from build_attack_df and
\* build_goals_only, 41 all-zero rows from build_minute_matrix, zero counts
\* for both teams from compute_event_stats, an empty top-N ranking and empty
\* cumulative series.
C16_EmptyInputEmptyResult ==
    df_events = <<>> =>
        /\ attack_out.called => (attack_out.ok /\ df_attack = <<>>)
        /\ goals_df.called => goals_df.rows = <<>>
        /\ minute_df.called =>
              /\ Len(minute_df.mat) = LastMinute + 1
              /\ \A i \in 1..Len(minute_df.mat) :
                    minute_df.mat[i].team_a = 0 /\ minute_df.mat[i].team_b = 0
        /\ (stats.called /\ stats.result.ok) =>
              \A k \in 1..2 :
                  /\ stats.result.counts[k].TotalEvents = 0
                  /\ \A c \in 1..Len(WHITELIST_EVENTS) : stats.result.dist[k].cells[c] = 0
        /\ top_players.called => top_players.agg = <<>>
        /\ cumulative.called =>
              /\ cumulative.ok
              /\ \A k \in 1..Len(cumulative.lines) : cumulative.lines[k].y = <<>>

\* The number of input events of a team id with a description in descs
NumEvents(id, descs) ==
    Cardinality({i \in 1..Len(df_events) :
                    df_events[i].TeamId = id /\ df_events[i].Description \in descs})

AnyText == {df_events[i].Description : i \in 1..Len(df_events)}

RECURSIVE SumCells(_)
SumCells(cells) == IF cells = <<>> THEN 0 ELSE Head(cells) + SumCells(Tail(cells))

\* What C18 says of the rows of one team, k = 1 for home and 2 for away
StatsRowIsRight(k, id, name) ==
    LET c == stats.result.counts[k]
        d == stats.result.dist[k]
    IN  /\ c.TeamName = name
        /\ d.TeamName = name
        /\ c.TotalEvents = NumEvents(id, AnyText)
        /\ Len(d.cells) = 5
        /\ \A n \in 1..Len(WHITELIST_EVENTS) :
              d.cells[n] = NumEvents(id, {WHITELIST_EVENTS[n]})
        /\ SumCells(d.cells) <= c.TotalEvents

\* C18: compute_event_stats returns two rows, home then away, in both
\* tables: TotalEvents counts all events of the team's id, each of the five
\* category columns counts the team's events of exactly that description, a
\* team without events has 0, events of other teams count nowhere, and the
\* categories of a team never sum to more than its TotalEvents.
C18_StatsPerTeam ==
    (stats.called /\ stats.result.ok) =>
        /\ Len(stats.result.counts) = 2
        /\ Len(stats.result.dist) = 2
        /\ StatsRowIsRight(1, match_row.HomeId, match_row.HomeName)
        /\ StatsRowIsRight(2, match_row.AwayId, match_row.AwayName)

C18_Witness ==
    /\ stats.called
    /\ stats.result.ok
    /\ Len(df_events) = 2
    /\ ~IsMatchTeam(df_events[1].TeamId)
    /\ df_events[2].TeamId = match_row.AwayId
    /\ df_events[2].Description = FoulText
    /\ stats.result.counts[1].TotalEvents = 0
    /\ stats.result.counts[2].TotalEvents = 1
    /\ stats.result.dist[2].cells = <<0, 1, 0, 0, 0>>

\* The first row of the attack table that belongs to a ranked player
FirstAppearance(g) ==
    Min({k \in 1..Len(df_attack) :
            df_attack[k].PlayerName = g.PlayerName /\ df_attack[k].TeamName = g.TeamName})

\* g ranks before h: a higher sum or, with equal sums, the earlier appearance
RanksBefore(g, h) ==
    \/ g.score > h.score
    \/ g.score = h.score /\ FirstAppearance(g) < FirstAppearance(h)

\* C12: the top-N ranking holds at most N players, those of the highest
\* summed weights, in descending order of the sums, players of equal sums in
\* the order of their first appearance in the event table.
C12_TopNStableOrder ==
    top_players.called =>
        LET agg    == top_players.agg
            groups == PlayerGroups(df_attack)
            ranked == {agg[k] : k \in 1..Len(agg)}
            all    == {groups[k] : k \in 1..Len(groups)}
        IN  /\ Len(agg) = Min({top_players.top_n, Len(groups)})
            /\ ranked \subseteq all
            /\ \A i, j \in 1..Len(agg) : i < j => RanksBefore(agg[i], agg[j])
            /\ \A g \in ranked : \A h \in all \ ranked : RanksBefore(g, h)

\* C21: in every row of the attack table the label is the row's own minute
\* field, in two digits at least, followed by an apostrophe; the label and
\* the minute of a row never name different minutes.
C21_LabelIsOwnMinute ==
    (attack_out.called /\ attack_out.ok) =>
        \A i \in 1..Len(df_attack) :
            df_attack[i].label = MinuteLabel(df_attack[i].minute)

\* C22: ewma is causal: two series that agree on the indices 0..i (smoothed
\* with the same dt and tau) give outputs that agree on the indices 0..i.
C22_EwmaIsCausal ==
    smoothed.called =>
        \A other \in SeqsUpTo(SeriesValues, MaxSeriesLen) :
            \A k \in 1..Min({Len(series.x), Len(other)}) :
                SubSeq(other, 1, k) = SubSeq(series.x, 1, k) =>
                    SubSeq(ewma(other, series.dt, series.tau), 1, k)
                        = SubSeq(smoothed.y, 1, k)

\* A smoothed series of two values at least, and another series that has the
\* same values but the last, whose output differs at the last index only.
C22_Witness ==
    /\ smoothed.called
    /\ Len(series.x) >= 2
    /\ \E other \in SeqsUpTo(SeriesValues, MaxSeriesLen) :
          LET n == Len(series.x)
              y == ewma(other, series.dt, series.tau)
          IN  /\ Len(other) = n
              /\ SubSeq(other, 1, n - 1) = SubSeq(series.x, 1, n - 1)
              /\ other[n] # series.x[n]
              /\ y[n] # smoothed.y[n]
              /\ SubSeq(y, 1, n - 1) = SubSeq(smoothed.y, 1, n - 1)

\* The two palettes that the last call of pick_match_colors started from
HomePaletteOfCall ==
    PaletteOf(df_db.rows, lastCall.args[1], AbbrOf(df_flags, lastCall.args[3]))
AwayPaletteOfCall ==
    PaletteOf(df_db.rows, lastCall.args[2], AbbrOf(df_flags, lastCall.args[4]))

\* C23: the similarity rule changes the away colour only: the home_color that
\* pick_match_colors returns is the home team's home shade, and when the two
\* first candidates (home's home shade, away's away shade) are not similar the
\* away_color is the away team's away shade.
C23_OnlyAwayColorChanges ==
    (lastCall.called /\ lastCall.pid = pid /\ lastCall.result.ok) =>
        /\ lastCall.result.home_color = HomePaletteOfCall.home
        /\ ~_similar(HomePaletteOfCall.home, AwayPaletteOfCall.away) =>
               lastCall.result.away_color = AwayPaletteOfCall.away

\* A call whose first candidates were similar: the away colour was changed,
\* the home colour was kept.
C23_Witness ==
    /\ lastCall.called /\ lastCall.pid = pid /\ lastCall.result.ok
    /\ _similar(HomePaletteOfCall.home, AwayPaletteOfCall.away)
    /\ lastCall.result.away_color # AwayPaletteOfCall.away
    /\ lastCall.result.home_color = HomePaletteOfCall.home

NonDecreasing(s) == \A i \in 1..(Len(s) - 1) : s[i] <= s[i + 1]

\* The line of a team of the match is there and is the cumulative series of
\* the team's rows.
TeamLineIsRight(team) ==
    LET rows == RowsOfTeam(df_attack, team)
    IN  rows # <<>> =>
            \E k \in 1..Len(cumulative.lines) :
                LET line == cumulative.lines[k]
                IN  /\ line.team = team
                    /\ Len(line.y) = Len(rows)
                    /\ NonDecreasing(line.x)
                    /\ NonDecreasing(line.y)
                    /\ line.y[Len(line.y)] = SumW(rows)

\* C24: plot_cumulative gives, for each team of the match, the cumulative
\* series over the team's rows of the attack table in the order of their
\* parsed seconds: one point per row, never decreasing, ending at the total
\* weight of all the team's rows, whatever their minutes are.
C24_CumulativePerTeam ==
    (attack_out.called /\ attack_out.ok /\ cumulative.called) =>
        /\ cumulative.ok
        /\ TeamLineIsRight(match_row.HomeName)
        /\ TeamLineIsRight(match_row.AwayName)

\* C25: process_timeline returns its rows in chronological order: the parsed
\* times of consecutive rows never decrease, whatever the texts of
\* MatchMinute are.
C25_TimelineChronological ==
    (timeline.called /\ timeline.result.ok) =>
        \A i \in 1..(Len(timeline.result.rows) - 1) :
            parse_time_to_seconds(timeline.result.rows[i].MatchMinute).val
                <= parse_time_to_seconds(timeline.result.rows[i + 1].MatchMinute).val

RECURSIVE SumColumn(_, _)
\* The sum of the column team_a (col = 1) or team_b (col = 2) of the matrix
SumColumn(mat, col) ==
    IF mat = <<>> THEN 0
    ELSE (IF col = 1 THEN Head(mat).team_a ELSE Head(mat).team_b)
             + SumColumn(Tail(mat), col)

\* C29: the minute matrix loses no row of the two teams: the column team_a
\* sums to the total weight of the home team's rows of the attack table, and
\* team_b to that of the away team's rows, whatever the minutes of the rows.
C29_BinningLosesNothing ==
    minute_df.called =>
        /\ SumColumn(minute_df.mat, 1) = SumW(RowsOfTeam(df_attack, match_row.HomeName))
        /\ SumColumn(minute_df.mat, 2) = SumW(RowsOfTeam(df_attack, match_row.AwayName))

\* The goals of a team in the table of build_goals_only
GoalRows(team) == Len(RowsOfTeam(goals_df.rows, team))

\* C30: the score is the same everywhere: the goals of the home and of the
\* away team that main counts, that _compute_score counts, and the rows per
\* team of build_goals_only are equal, for every list of events.
C30_SameScoreEverywhere ==
    LET in_main == MainScore(df_events, match_row)
        in_info == _compute_score(df_events, match_row.HomeId, match_row.AwayId)
    IN  /\ main_score.called => main_score.score = in_info
        /\ info_score.called => info_score.score = in_main
        /\ goals_df.called =>
              /\ GoalRows(match_row.HomeName) = in_main.home
              /\ GoalRows(match_row.AwayName) = in_main.away
              /\ GoalRows(match_row.HomeName) = in_info.home
              /\ GoalRows(match_row.AwayName) = in_info.away

\* bool(st.session_state.get("authenticated")) of the session
Authenticated == Truthy(session_state, "authenticated")

\* C26: the run that follows a click on the Logout of logout_button does not
\* log in from the cookie, even when the cookie still holds a known user
\* name: the session stays unauthenticated, and login_page (the run of main)
\* shows the login form and stops.
C26_NoAutoLoginAfterLogoutButton ==
    prev_click = "logout_btn" =>
        /\ ~Authenticated
        /\ page = "main" => ("login_form" \in shown /\ ~rerun)

\* The run after the click, with the cookie of a known user still there
C26_Witness ==
    /\ prev_click = "logout_btn"
    /\ cookie = APP_USER
    /\ page = "main"
    /\ "login_form" \in shown
    /\ ~Authenticated

\* C27: once a Logout control (that of logout_button or that of
\* sidebar_header) was clicked, the session stays unauthenticated in every
\* later run until valid credentials are submitted; no later run logs in
\* from a cookie that was left behind.
C27_LogoutIsFinal == logged_out => ~Authenticated

\* C28: in every reachable state of the session, match_row is present only
\* if the session is authenticated; login, the selection of a match and both
\* logout paths keep it so.
C28_MatchRowOnlyIfAuthenticated ==
    session_state["match_row"] # Absent => Authenticated

\* A match was selected and the Timeline page, which asks for no login,
\* shows its data.
C28_Witness ==
    /\ session_state["match_row"] # Absent
    /\ Authenticated
    /\ page = "Timeline"
    /\ "match_data" \in shown

=============================================================================
